---------------------------- MODULE Spec2Model ----------------------------
(* Model of the Theory-of-Change diagram generator                          *)
(* (src/js/svgVisualizer.js): generateSVGVisualization, createNode and      *)
(* createConnection, and of the application around it: TocDataModel,        *)
(* StorageManager (load, save, autosave timer), the imports, the views of   *)
(* TocApplication and the click and input handlers of EventHandlers.        *)
(* Strings are sequences of one-character strings.                          *)
(* Horizontal coordinates are exact fractions [n, d] (the code computes      *)
(* them in double precision; the margins checked here are whole pixels).    *)
EXTENDS Integers, Sequences, FiniteSets, TLC

VARIABLES
    data,          \* the snapshot handed to generateSVGVisualization
    pc,            \* position inside generateSVGVisualization
    oi, oj,        \* indices of the nested forEach of the collection pass
    outputsMap,    \* Map in insertion order: <<[key, output, outcomeIds]>>
    totalWidth, totalHeight,
    svg,           \* children of the <svg> element, in document order
    outcomeNodes,  \* the outcomeNodes array
    outputNodes,   \* the outputNodes array
    li,            \* index of the layer forEach in progress
    returned,      \* the scene returned by the previous invocation
    calls,         \* number of invocations that returned a scene before this one
    text,          \* createNode: the text argument
    fpc,           \* createNode: position inside the text fitting
    truncatedText, words, wi, lines, currentLine, displayLines,
    textEls,       \* textContent of the <text> elements of the main text
    titleEl,       \* textContent of the <title> tooltip
    apc,           \* the application: "idle" or "running" (initialized)
    tocData,       \* TocDataModel.data
    nextId,        \* stands for the next value of crypto.randomUUID()
    currentView,   \* TocApplication.currentView: "preview" or "edit"
    activeVisualization,  \* the container carrying class active: "text" or "diagram"
    previewContent,       \* content of #preview-content-container
    svgContent,    \* content of #svg-visualization-container
    timers,        \* the pending timeouts of the window: {[id, remaining]}
    autosaveTimer, \* StorageManager.autosaveTimer (0 is null)
    timerSeq,      \* the last timeout id handed out by setTimeout
    sinceChange,   \* ms since the last change notification (-1: none yet)
    autosaves,     \* automatic saves since the last change notification
    stored,        \* localStorage: the item 'toc-authoring-data', <<>> when absent
    lastResult,    \* what the last handler returned (imports, saves, beforeunload)
    unsaved,       \* the model was changed in the edit view and not saved since
    fieldValue,    \* the value of every input element that was typed into
    inputTimer,    \* the timeout of the debounced input listener and its event
    typed,         \* the number of input events so far
    listeners,     \* TocDataModel.listeners: the number of subscribed callbacks
    notifications, \* the listener calls made by the last mutation, in order
    before,        \* TocDataModel.data before the last mutation
    lastOp         \* the last mutation and its arguments

vars == <<data, pc, oi, oj, outputsMap, totalWidth, totalHeight, svg,
          outcomeNodes, outputNodes, li, returned, calls, text, fpc, truncatedText, words,
          wi, lines, currentLine, displayLines, textEls, titleEl,
          apc, tocData, nextId, currentView, activeVisualization,
          previewContent, svgContent, timers, autosaveTimer, timerSeq,
          sinceChange, autosaves, stored, lastResult, unsaved, fieldValue,
          inputTimer, typed, listeners, notifications, before, lastOp>>

svgVars == <<data, pc, oi, oj, outputsMap, totalWidth, totalHeight, svg,
             outcomeNodes, outputNodes, li, returned, calls>>

callVars == <<returned, calls>>

modelVars == <<listeners, notifications, before, lastOp>>

appVars == <<apc, tocData, nextId, currentView, activeVisualization,
             previewContent, svgContent, timers, autosaveTimer, timerSeq,
             sinceChange, autosaves, stored, lastResult, unsaved, fieldValue,
             inputTimer, typed>>

\* the input elements and the debounced listener of the document
inputVars == <<fieldValue, inputTimer, typed>>

fitVars == <<text, fpc, truncatedText, words, wi, lines, currentLine,
             displayLines, textEls, titleEl>>

-----------------------------------------------------------------------------
(* Bounds of the explored inputs *)

MaxOutcomes == 2
MaxOutputs == 3
MaxWide == 7
MaxCalls == 2
MaxAppOutcomes == 2
MaxChanges == 3
MaxWideOutputs == 2
MaxWords == 4
MaxAppItems == 1
MaxTyped == 2
MaxListeners == 2
MaxModelCalls == 2

-----------------------------------------------------------------------------
(* config object of generateSVGVisualization *)

width == 1200
levelHeight == 180
itemWidth == 200
itemHeight == 80
horizontalGap == 40
padding == 20

(* literals of createNode *)
maxChars == 60
keptChars == 57
maxCharsPerLine == 30
maxLines == 2

Ellipsis == <<".", ".", ".">>

\* a property that is absent from the snapshot object
Undefined == <<"undefined">>

Max(a, b) == IF a >= b THEN a ELSE b

-----------------------------------------------------------------------------
(* Exact fractions for the x coordinates *)

Frac(n, d) == [n |-> n, d |-> d]
FInt(k) == [n |-> k, d |-> 1]
FAdd(a, b) == [n |-> a.n * b.d + b.n * a.d, d |-> a.d * b.d]
FSub(a, b) == [n |-> a.n * b.d - b.n * a.d, d |-> a.d * b.d]
FMulInt(a, k) == [n |-> a.n * k, d |-> a.d]
FEq(a, b) == a.n * b.d = b.n * a.d
FLt(a, b) == a.n * b.d < b.n * a.d
FLeq(a, b) == a.n * b.d <= b.n * a.d

-----------------------------------------------------------------------------
(* String primitives *)

Uppers == <<"A","B","C","D","E","F","G","H","I","J","K","L","M",
            "N","O","P","Q","R","S","T","U","V","W","X","Y","Z">>
Lowers == <<"a","b","c","d","e","f","g","h","i","j","k","l","m",
            "n","o","p","q","r","s","t","u","v","w","x","y","z">>

IsWhiteSpace(c) == c = " "

ToLowerChar(c) ==
    IF \E k \in 1..Len(Uppers) : Uppers[k] = c
    THEN Lowers[CHOOSE k \in 1..Len(Uppers) : Uppers[k] = c]
    ELSE c

\* String.prototype.toLowerCase
ToLowerCase(s) == [k \in 1..Len(s) |-> ToLowerChar(s[k])]

RECURSIVE TrimStart(_)
TrimStart(s) ==
    IF s = <<>> THEN s
    ELSE IF IsWhiteSpace(Head(s)) THEN TrimStart(Tail(s)) ELSE s

RECURSIVE TrimEnd(_)
TrimEnd(s) ==
    IF s = <<>> THEN s
    ELSE IF IsWhiteSpace(s[Len(s)]) THEN TrimEnd(SubSeq(s, 1, Len(s) - 1))
    ELSE s

\* String.prototype.trim
Trim(s) == TrimEnd(TrimStart(s))

\* String.prototype.substring(0, k)
Substring0(s, k) == SubSeq(s, 1, IF k < Len(s) THEN k ELSE Len(s))

\* String.prototype.split(' '): always at least one (possibly empty) piece
RECURSIVE Split(_)
Split(s) ==
    IF \A k \in 1..Len(s) : s[k] # " " THEN <<s>>
    ELSE LET p == CHOOSE k \in 1..Len(s) :
                     s[k] = " " /\ \A q \in 1..(k - 1) : s[q] # " "
         IN <<SubSeq(s, 1, p - 1)>> \o Split(SubSeq(s, p + 1, Len(s)))

-----------------------------------------------------------------------------
(* createNode: text fitting *)

\* mutation: the ellipsis appended from 60 characters on
TruncateAtSixty(t) ==
    IF Len(t) >= maxChars THEN Substring0(t, keptChars) \o Ellipsis ELSE t

\* mutation: the first 60 characters are kept before the ellipsis
TruncateKeepSixty(t) ==
    IF Len(t) > maxChars THEN Substring0(t, maxChars) \o Ellipsis ELSE t

\* const truncatedText = text.length > 60 ? text.substring(0, 57) + '...' : text
Truncate(t) ==
    IF Len(t) > maxChars THEN Substring0(t, keptChars) \o Ellipsis ELSE t

\* mutation: a word that does not fit is cut at the line width
WrapWordHardBreak(st, word) ==
    IF Len(st.currentLine \o word) <= maxCharsPerLine
    THEN [lines |-> st.lines,
          currentLine |-> st.currentLine
              \o (IF st.currentLine # <<>> THEN <<" ">> ELSE <<>>) \o word]
    ELSE [lines |-> IF st.currentLine # <<>>
                    THEN Append(st.lines, st.currentLine) ELSE st.lines,
          currentLine |-> Substring0(word, maxCharsPerLine)]

\* mutation: the fit test looks at the current line alone
WrapWordLineTest(st, word) ==
    IF Len(st.currentLine) <= maxCharsPerLine
    THEN [lines |-> st.lines,
          currentLine |-> st.currentLine
              \o (IF st.currentLine # <<>> THEN <<" ">> ELSE <<>>) \o word]
    ELSE [lines |-> IF st.currentLine # <<>>
                    THEN Append(st.lines, st.currentLine) ELSE st.lines,
          currentLine |-> word]

\* body of words.forEach(word => ...) on the pair (lines, currentLine)
WrapWord(st, word) ==
    IF Len(st.currentLine \o word) <= maxCharsPerLine
    THEN [lines |-> st.lines,
          currentLine |-> st.currentLine
              \o (IF st.currentLine # <<>> THEN <<" ">> ELSE <<>>) \o word]
    ELSE [lines |-> IF st.currentLine # <<>>
                    THEN Append(st.lines, st.currentLine) ELSE st.lines,
          currentLine |-> word]

RECURSIVE WrapFrom(_, _, _)
WrapFrom(st, ws, k) ==
    IF k > Len(ws) THEN st ELSE WrapFrom(WrapWord(st, ws[k]), ws, k + 1)

\* if (currentLine) lines.push(currentLine)
FlushLine(st) ==
    IF st.currentLine # <<>> THEN Append(st.lines, st.currentLine) ELSE st.lines

\* the lines array after the wrapping loop
WrapLines(t) ==
    FlushLine(WrapFrom([lines |-> <<>>, currentLine |-> <<>>], Split(t), 1))

\* lines.slice(0, maxLines)
SliceLines(ls) == SubSeq(ls, 1, IF Len(ls) < maxLines THEN Len(ls) ELSE maxLines)

\* mutation: the second displayed line always ends with the ellipsis
LineContentAlwaysCut(ls, dl, i) ==
    dl[i + 1] \o (IF i = maxLines - 1 THEN Ellipsis ELSE <<>>)

\* textContent of the i-th (0-based) displayed line
LineContent(ls, dl, i) ==
    dl[i + 1] \o (IF i = maxLines - 1 /\ Len(ls) > maxLines THEN Ellipsis ELSE <<>>)

TextContents(ls, dl) == [k \in 1..Len(dl) |-> LineContent(ls, dl, k - 1)]

\* mutation: the tooltip shows the shortened text
TitleOfTruncated(t) == Truncate(t)

\* titleEl.textContent = text
TitleOf(t) == t

\* createNode(x, y, width, height, text, color, label, indicatorCount, isShared)
\* for a text that is a string; the group element with what it displays
CreateNode(x, y, w, h, t, label, indicatorCount, isShared) ==
    LET ls == WrapLines(Truncate(t))
        dl == SliceLines(ls)
    IN [tag |-> "g", x |-> x, y |-> y, width |-> w, height |-> h,
        label |-> label, lines |-> TextContents(ls, dl), title |-> TitleOf(t),
        indicatorCount |-> indicatorCount,
        badge |-> indicatorCount > 0, isShared |-> isShared]

\* mutation: a text that is not there is drawn as the word undefined
CreateNodeNeverThrows(t) == FALSE

\* text.length on a text that is not there throws a TypeError
CreateNodeThrows(t) == t = Undefined

\* mutation: every connector is dashed
CreateConnectionDashed(x1, y1, x2, y2, isShared) ==
    [tag |-> "path", x1 |-> x1, y1 |-> y1, x2 |-> x2, y2 |-> y2,
     midY |-> (y1 + y2) \div 2,
     strokeWidth10 |-> IF isShared THEN 25 ELSE 15,
     opacity10 |-> IF isShared THEN 8 ELSE 5,
     dashed |-> TRUE]

\* createConnection(x1, y1, x2, y2, color, isShared)
CreateConnection(x1, y1, x2, y2, isShared) ==
    [tag |-> "path", x1 |-> x1, y1 |-> y1, x2 |-> x2, y2 |-> y2,
     midY |-> (y1 + y2) \div 2,
     strokeWidth10 |-> IF isShared THEN 25 ELSE 15,
     opacity10 |-> IF isShared THEN 8 ELSE 5,
     dashed |-> isShared]

-----------------------------------------------------------------------------
(* Snapshots handed to generateSVGVisualization *)

Indicators(k) == [q \in 1..k |-> [id |-> q, description |-> <<>>]]

RECURSIVE Repeat(_, _)
Repeat(c, k) == IF k <= 0 THEN <<>> ELSE <<c>> \o Repeat(c, k - 1)

\* statement "" is what addOutput creates; the others are typed by the user
OutputKinds ==
    { [statement |-> <<>>, indicators |-> 0],
      [statement |-> <<" ">>, indicators |-> 1],
      [statement |-> <<"a">>, indicators |-> 0],
      [statement |-> <<" ", "A">>, indicators |-> 2] }

\* the Outputs of a snapshot in walk order, at most MaxOutputs in all
OutputSeqs == UNION { [1..k -> OutputKinds] : k \in 0..MaxOutputs }

MkOutput(i, j, stmt, nind) ==
    [id |-> 10 * i + j, statement |-> stmt, indicators |-> Indicators(nind)]

MkOutcome(id, stmt, nind, outs) ==
    [id |-> id, statement |-> stmt, indicators |-> Indicators(nind), outputs |-> outs]

\* the version string that getDefaultStructure writes
Version == <<"1", ".", "0">>

MkSnapshot(impactStatement, outcomes) ==
    [version |-> Version, lastModified |-> 0,
     impact |-> [id |-> 0, statement |-> impactStatement], outcomes |-> outcomes]

\* the ways to hand k Outputs in walk order to n Outcomes
Ownerships(k, n) ==
    { g \in [1..k -> 1..n] : \A a, b \in 1..k : a <= b => g[a] <= g[b] }

\* the Outputs of f that g hands to Outcome i
OwnedOutputs(f, g, i) ==
    LET first == Cardinality({ a \in 1..Len(f) : g[a] < i })
        count == Cardinality({ a \in 1..Len(f) : g[a] = i })
    IN [j \in 1..count |->
           MkOutput(i, j, f[first + j].statement, f[first + j].indicators)]

SmallSnapshots ==
    { MkSnapshot(<<"X">>,
        [i \in 1..c.n |->
            MkOutcome(i, Repeat("o", i - 1), i - 1, OwnedOutputs(c.f, c.g, i))]) :
      c \in UNION { UNION { { [n |-> n, f |-> f, g |-> g] : g \in Ownerships(Len(f), n) } :
                            f \in OutputSeqs } : n \in 0..MaxOutcomes } }

\* n outcomes with p outputs each, all statements different
WideSnapshots ==
    { MkSnapshot(<<"X">>,
        [i \in 1..n |->
            MkOutcome(i, <<"o">>, 0,
                [j \in 1..p |-> MkOutput(i, j, Repeat("x", (i - 1) * p + j), 0)])]) :
      n \in 0..MaxWide, p \in 0..MaxWideOutputs }

SharedThing == <<"S","h","a","r","e","d"," ","T","h","i","n","g">>
OnlyA == <<"O","n","l","y"," ","A">>

\* Impact "X"; A owns "Shared Thing" and "Only A", B owns "Shared Thing"
ScenarioSnapshot ==
    MkSnapshot(<<"X">>,
        << MkOutcome(1, <<"A">>, 0,
               << MkOutput(1, 1, SharedThing, 0), MkOutput(1, 2, OnlyA, 0) >>),
           MkOutcome(2, <<"B">>, 0, << MkOutput(2, 1, SharedThing, 0) >>) >>)

\* objects with a statement missing, and two outcomes carrying one id
DegenerateSnapshots ==
    { MkSnapshot(Undefined, <<>>),
      MkSnapshot(<<"X">>, << MkOutcome(1, Undefined, 0, <<>>) >>),
      MkSnapshot(<<"X">>,
          << MkOutcome(1, <<"o">>, 0, << MkOutput(1, 1, Undefined, 0) >>) >>),
      MkSnapshot(<<"X">>,
          << MkOutcome(1, <<"o">>, 0, << MkOutput(1, 1, <<"a">>, 0) >>),
             MkOutcome(1, <<"p">>, 0, << MkOutput(2, 1, <<"a">>, 0) >>) >>) }

\* snapshots with a required field missing: no outcomes property, no
\* impact.statement on a snapshot that has Outputs to collect, no version
MalformedSnapshots ==
    { [version |-> Version, impact |-> [id |-> 0, statement |-> <<"X">>]],
      MkSnapshot(Undefined,
          << MkOutcome(1, <<"o">>, 0,
                 << MkOutput(1, 1, <<"a">>, 0), MkOutput(1, 2, <<"b">>, 0) >>) >>),
      [impact |-> [id |-> 0, statement |-> <<"X">>],
       outcomes |-> << MkOutcome(1, <<"o">>, 0, <<>>) >>] }

Snapshots ==
    SmallSnapshots \cup WideSnapshots \cup DegenerateSnapshots
        \cup MalformedSnapshots \cup {ScenarioSnapshot}

\* a property is there and is not undefined
Has(obj, field) == field \in DOMAIN obj

\* !value for a string: undefined and "" are falsy
Falsy(str) == str = Undefined \/ str = <<>>

\* StorageManager.isValidData(data); in every modelled object id is a number
\* (0 stands for a falsy id) and indicators and outputs are arrays
IsValidData(d) ==
    /\ Has(d, "version") /\ ~Falsy(d.version)
    /\ Has(d, "impact") /\ ~Falsy(d.impact.statement)
    /\ Has(d, "outcomes")
    /\ \A i \in 1..Len(d.outcomes) :
          /\ d.outcomes[i].id # 0
          /\ \A j \in 1..Len(d.outcomes[i].outputs) :
                d.outcomes[i].outputs[j].id # 0

-----------------------------------------------------------------------------
(* generateSVGVisualization: collection of the unique outputs *)

\* mutation: the key keeps the case of the statement
KeyOfCaseSensitive(statement) == Trim(statement)

\* const key = output.statement.trim().toLowerCase()
KeyOf(statement) == ToLowerCase(Trim(statement))

MapHas(map, key) == \E k \in 1..Len(map) : map[k].key = key

MapIndex(map, key) == CHOOSE k \in 1..Len(map) : map[k].key = key

\* mutation: a later occurrence replaces the stored output
MapCollectLastSeen(map, outcome, output) ==
    LET key == KeyOf(output.statement) IN
    IF MapHas(map, key)
    THEN [map EXCEPT ![MapIndex(map, key)] =
             [@ EXCEPT !.output = output,
                       !.outcomeIds = Append(@, outcome.id)]]
    ELSE Append(map, [key |-> key, output |-> output, outcomeIds |-> <<outcome.id>>])

\* mutation: every output gets an entry of its own
MapCollectNoMerge(map, outcome, output) ==
    Append(map, [key |-> KeyOf(output.statement), output |-> output,
                 outcomeIds |-> <<outcome.id>>])

\* body of outcome.outputs.forEach(output => ...) on outputsMap
MapCollect(map, outcome, output) ==
    LET key == KeyOf(output.statement) IN
    IF MapHas(map, key)
    THEN [map EXCEPT ![MapIndex(map, key)].outcomeIds = Append(@, outcome.id)]
    ELSE Append(map, [key |-> key, output |-> output, outcomeIds |-> <<outcome.id>>])

\* const uniqueOutputs = Array.from(outputsMap.values())
uniqueOutputs == outputsMap

\* mutation: the canvas keeps its default width
TotalWidthFixed(n, m) == width

\* mutation: the canvas is sized without the horizontal gap
TotalWidthNoGap(n, m) ==
    Max(width, Max(Max(n, m), 1) * itemWidth + padding * 2)

\* maxItemsPerRow and totalWidth
TotalWidth(n, m) ==
    Max(width, Max(Max(n, m), 1) * (itemWidth + horizontalGap) + padding * 2)

\* mutation: the canvas height without the padding
TotalHeightNoPadding == levelHeight * 3

TotalHeight == levelHeight * 3 + padding * 2

\* data.outcomes.forEach on a snapshot without an outcomes array throws a
\* TypeError
ForEachThrows ==
    /\ pc = "collect"
    /\ ~Has(data, "outcomes")
    /\ pc' = "raised"
    /\ UNCHANGED <<data, oi, oj, outputsMap, totalWidth, totalHeight, svg,
                   outcomeNodes, outputNodes, li>>
    /\ UNCHANGED fitVars
    /\ UNCHANGED callVars
    /\ UNCHANGED appVars
    /\ UNCHANGED modelVars

CollectOutput ==
    /\ pc = "collect"
    /\ Has(data, "outcomes")
    /\ oi <= Len(data.outcomes)
    /\ oj <= Len(data.outcomes[oi].outputs)
    /\ LET outcome == data.outcomes[oi]
           output == outcome.outputs[oj]
       IN IF output.statement = Undefined
          THEN /\ pc' = "raised"
               /\ UNCHANGED <<outputsMap, oj>>
          ELSE /\ outputsMap' = MapCollect(outputsMap, outcome, output)
               /\ oj' = oj + 1
               /\ pc' = pc
    /\ UNCHANGED <<data, oi, totalWidth, totalHeight, svg, outcomeNodes,
                   outputNodes, li>>
    /\ UNCHANGED fitVars
    /\ UNCHANGED callVars
    /\ UNCHANGED appVars
    /\ UNCHANGED modelVars

CollectNextOutcome ==
    /\ pc = "collect"
    /\ Has(data, "outcomes")
    /\ oi <= Len(data.outcomes)
    /\ oj > Len(data.outcomes[oi].outputs)
    /\ oi' = oi + 1
    /\ oj' = 1
    /\ UNCHANGED <<data, pc, outputsMap, totalWidth, totalHeight, svg,
                   outcomeNodes, outputNodes, li>>
    /\ UNCHANGED fitVars
    /\ UNCHANGED callVars
    /\ UNCHANGED appVars
    /\ UNCHANGED modelVars

CalculateDimensions ==
    /\ pc = "collect"
    /\ Has(data, "outcomes")
    /\ oi > Len(data.outcomes)
    /\ totalWidth' = TotalWidth(Len(data.outcomes), Len(uniqueOutputs))
    /\ totalHeight' = TotalHeight
    /\ pc' = "createSvg"
    /\ UNCHANGED <<data, oi, oj, outputsMap, svg, outcomeNodes, outputNodes, li>>
    /\ UNCHANGED fitVars
    /\ UNCHANGED callVars
    /\ UNCHANGED appVars
    /\ UNCHANGED modelVars

\* <svg> with its title, desc and defs children
CreateSVG ==
    /\ pc = "createSvg"
    /\ svg' = << [tag |-> "title"],
                 [tag |-> "desc", outcomes |-> Len(data.outcomes),
                  uniqueOutputs |-> Len(uniqueOutputs)],
                 [tag |-> "defs"] >>
    /\ pc' = "impact"
    /\ UNCHANGED <<data, oi, oj, outputsMap, totalWidth, totalHeight,
                   outcomeNodes, outputNodes, li>>
    /\ UNCHANGED fitVars
    /\ UNCHANGED callVars
    /\ UNCHANGED appVars
    /\ UNCHANGED modelVars

-----------------------------------------------------------------------------
(* generateSVGVisualization: the three layers *)

\* what Node.appendChild would do in place of insertBefore
InsertAtEnd(children, el, k) == Append(children, el)

\* Node.insertBefore(newChild, child at position k)
InsertBefore(children, el, k) ==
    SubSeq(children, 1, k - 1) \o <<el>> \o SubSeq(children, k, Len(children))

IsImpactGroup(el) == el.tag = "g" /\ el.label.kind = "Impact"

\* position of impactNode.group among the children
ImpactIndex(children) ==
    CHOOSE k \in 1..Len(children) : IsImpactGroup(children[k])

impactY == padding + itemHeight \div 2
impactX == Frac(totalWidth, 2)

\* createNode(impactX - itemWidth / 2, padding, itemWidth * 1.5, ...)
ImpactNode(w, statement) ==
    CreateNode(FSub(Frac(w, 2), FInt(itemWidth \div 2)), padding,
               (itemWidth * 3) \div 2, itemHeight, statement,
               [kind |-> "Impact", n |-> 0], 0, FALSE)

\* x of the box of the item at (0-based) index in a rank of count items
SlotX(w, count, index) ==
    FSub(FMulInt(Frac(w, count + 1), index + 1), FInt(itemWidth \div 2))

LayerImpact ==
    /\ pc = "impact"
    /\ IF CreateNodeThrows(data.impact.statement)
       THEN /\ pc' = "raised"
            /\ UNCHANGED <<svg, li>>
       ELSE /\ svg' = Append(svg, ImpactNode(totalWidth, data.impact.statement))
            /\ pc' = "outcomes"
            /\ li' = 0
    /\ UNCHANGED <<data, oi, oj, outputsMap, totalWidth, totalHeight,
                   outcomeNodes, outputNodes>>
    /\ UNCHANGED fitVars
    /\ UNCHANGED callVars
    /\ UNCHANGED appVars
    /\ UNCHANGED modelVars

\* body of data.outcomes.forEach((outcome, index) => ...)
LayerOutcome ==
    /\ pc = "outcomes"
    /\ li < Len(data.outcomes)
    /\ LET outcome == data.outcomes[li + 1]
           x == SlotX(totalWidth, Len(data.outcomes), li)
           y == padding + levelHeight
           cx == FAdd(x, FInt(itemWidth \div 2))
           node == CreateNode(x, y, itemWidth, itemHeight, outcome.statement,
                              [kind |-> "Outcome", n |-> 0],
                              Len(outcome.indicators), FALSE)
           connection == CreateConnection(impactX, impactY + itemHeight \div 2,
                                          cx, y, FALSE)
       IN IF CreateNodeThrows(outcome.statement)
          THEN /\ pc' = "raised"
               /\ UNCHANGED <<svg, outcomeNodes, li>>
          ELSE /\ svg' = LET appended == Append(svg, node)
                         IN InsertBefore(appended, connection, ImpactIndex(appended))
               /\ outcomeNodes' = Append(outcomeNodes,
                      [id |-> outcome.id, x |-> cx, y |-> y + itemHeight, node |-> node])
               /\ li' = li + 1
               /\ pc' = pc
    /\ UNCHANGED <<data, oi, oj, outputsMap, totalWidth, totalHeight, outputNodes>>
    /\ UNCHANGED fitVars
    /\ UNCHANGED callVars
    /\ UNCHANGED appVars
    /\ UNCHANGED modelVars

OutcomesDone ==
    /\ pc = "outcomes"
    /\ li >= Len(data.outcomes)
    /\ pc' = "outputs"
    /\ li' = 0
    /\ UNCHANGED <<data, oi, oj, outputsMap, totalWidth, totalHeight, svg,
                   outcomeNodes, outputNodes>>
    /\ UNCHANGED fitVars
    /\ UNCHANGED callVars
    /\ UNCHANGED appVars
    /\ UNCHANGED modelVars

\* mutation: the connector starts at the first Outcome, whatever the id
FindFirstOutcomeNode(nodes, outcomeId) ==
    IF Len(nodes) > 0 THEN <<nodes[1]>> ELSE <<>>

\* outcomeNodes.find(n => n.id === outcomeId)
FindOutcomeNode(nodes, outcomeId) ==
    IF \E k \in 1..Len(nodes) : nodes[k].id = outcomeId
    THEN <<nodes[CHOOSE k \in 1..Len(nodes) :
                    /\ nodes[k].id = outcomeId
                    /\ \A q \in 1..(k - 1) : nodes[q].id # outcomeId]>>
    ELSE <<>>

\* outputData.outcomeIds.forEach(outcomeId => ...), from the k-th id on
RECURSIVE ConnectOutcomes(_, _, _, _, _, _, _)
ConnectOutcomes(children, nodes, ids, k, cx, y, isShared) ==
    IF k > Len(ids) THEN children
    ELSE LET found == FindOutcomeNode(nodes, ids[k])
             next == IF found # <<>>
                     THEN InsertBefore(children,
                              CreateConnection(found[1].x, found[1].y, cx, y, isShared),
                              2)
                     ELSE children
         IN ConnectOutcomes(next, nodes, ids, k + 1, cx, y, isShared)

outputsY == padding + levelHeight * 2

OutputLabel(isShared, count) ==
    IF isShared THEN [kind |-> "Output (shared across N outcomes)", n |-> count]
    ELSE [kind |-> "Output", n |-> 0]

\* body of uniqueOutputs.forEach((outputData, index) => ...)
LayerOutput ==
    /\ pc = "outputs"
    /\ li < Len(uniqueOutputs)
    /\ LET outputData == uniqueOutputs[li + 1]
           x == SlotX(totalWidth, Len(uniqueOutputs), li)
           y == outputsY
           cx == FAdd(x, FInt(itemWidth \div 2))
           output == outputData.output
           isShared == Len(outputData.outcomeIds) > 1
           node == CreateNode(x, y, itemWidth, itemHeight, output.statement,
                              OutputLabel(isShared, Len(outputData.outcomeIds)),
                              Len(output.indicators), isShared)
       IN /\ svg' = ConnectOutcomes(Append(svg, node), outcomeNodes,
                                    outputData.outcomeIds, 1, cx, y, isShared)
          /\ outputNodes' = Append(outputNodes,
                 [outcomeIds |-> outputData.outcomeIds, x |-> cx, y |-> y,
                  node |-> node])
    /\ li' = li + 1
    /\ UNCHANGED <<data, pc, oi, oj, outputsMap, totalWidth, totalHeight,
                   outcomeNodes>>
    /\ UNCHANGED fitVars
    /\ UNCHANGED callVars
    /\ UNCHANGED appVars
    /\ UNCHANGED modelVars

\* return svg
ReturnSVG ==
    /\ pc = "outputs"
    /\ li >= Len(uniqueOutputs)
    /\ pc' = "done"
    /\ UNCHANGED <<data, oi, oj, outputsMap, totalWidth, totalHeight, svg,
                   outcomeNodes, outputNodes, li>>
    /\ UNCHANGED fitVars
    /\ UNCHANGED callVars
    /\ UNCHANGED appVars
    /\ UNCHANGED modelVars

\* mutation: the Map of the previous invocation is used again
KeptMap(previous) == previous

\* const outputsMap = new Map()
NewMap(previous) == <<>>

\* the caller invokes generateSVGVisualization(data) once more on the same
\* snapshot: the locals of the function are created afresh
InvokeAgain ==
    /\ pc = "done"
    /\ calls < MaxCalls
    /\ returned' = svg
    /\ calls' = calls + 1
    /\ pc' = "collect"
    /\ oi' = 1
    /\ oj' = 1
    /\ outputsMap' = NewMap(outputsMap)
    /\ totalWidth' = 0
    /\ totalHeight' = 0
    /\ svg' = <<>>
    /\ outcomeNodes' = <<>>
    /\ outputNodes' = <<>>
    /\ li' = 0
    /\ UNCHANGED data
    /\ UNCHANGED fitVars
    /\ UNCHANGED appVars
    /\ UNCHANGED modelVars

-----------------------------------------------------------------------------
(* createNode, statement by statement, on one label text *)

\* a label of the given word lengths; the k-th word is spelled with Lowers[k]
RECURSIVE JoinWords(_, _)
JoinWords(lens, k) ==
    IF k > Len(lens) THEN <<>>
    ELSE Repeat(Lowers[k], lens[k])
         \o (IF k < Len(lens) THEN <<" ">> ELSE <<>>)
         \o JoinWords(lens, k + 1)

WordLens == {0, 14, 15, 20, 30, 31, 32}

FitTexts ==
    { JoinWords(lens, 1) : lens \in UNION { [1..k -> WordLens] : k \in 0..MaxWords } }

FitIdle ==
    /\ text = <<>>
    /\ fpc = "idle"
    /\ truncatedText = <<>>
    /\ words = <<>>
    /\ wi = 0
    /\ lines = <<>>
    /\ currentLine = <<>>
    /\ displayLines = <<>>
    /\ textEls = <<>>
    /\ titleEl = <<>>

SvgIdle ==
    /\ data = MkSnapshot(<<"X">>, <<>>)
    /\ pc = "idle"
    /\ oi = 1
    /\ oj = 1
    /\ outputsMap = <<>>
    /\ totalWidth = 0
    /\ totalHeight = 0
    /\ svg = <<>>
    /\ outcomeNodes = <<>>
    /\ outputNodes = <<>>
    /\ li = 0
    /\ returned = <<>>
    /\ calls = 0

TruncateText ==
    /\ fpc = "truncate"
    /\ truncatedText' = Truncate(text)
    /\ fpc' = "split"
    /\ UNCHANGED <<text, words, wi, lines, currentLine, displayLines, textEls, titleEl>>
    /\ UNCHANGED svgVars
    /\ UNCHANGED appVars
    /\ UNCHANGED modelVars

SplitWords ==
    /\ fpc = "split"
    /\ words' = Split(truncatedText)
    /\ wi' = 1
    /\ fpc' = "wrap"
    /\ UNCHANGED <<text, truncatedText, lines, currentLine, displayLines, textEls, titleEl>>
    /\ UNCHANGED svgVars
    /\ UNCHANGED appVars
    /\ UNCHANGED modelVars

WrapNextWord ==
    /\ fpc = "wrap"
    /\ wi <= Len(words)
    /\ LET st == WrapWord([lines |-> lines, currentLine |-> currentLine], words[wi])
       IN /\ lines' = st.lines
          /\ currentLine' = st.currentLine
    /\ wi' = wi + 1
    /\ UNCHANGED <<text, fpc, truncatedText, words, displayLines, textEls, titleEl>>
    /\ UNCHANGED svgVars
    /\ UNCHANGED appVars
    /\ UNCHANGED modelVars

WrapFlush ==
    /\ fpc = "wrap"
    /\ wi > Len(words)
    /\ lines' = FlushLine([lines |-> lines, currentLine |-> currentLine])
    /\ fpc' = "display"
    /\ UNCHANGED <<text, truncatedText, words, wi, currentLine, displayLines, textEls, titleEl>>
    /\ UNCHANGED svgVars
    /\ UNCHANGED appVars
    /\ UNCHANGED modelVars

DisplayText ==
    /\ fpc = "display"
    /\ displayLines' = SliceLines(lines)
    /\ textEls' = TextContents(lines, SliceLines(lines))
    /\ fpc' = "title"
    /\ UNCHANGED <<text, truncatedText, words, wi, lines, currentLine, titleEl>>
    /\ UNCHANGED svgVars
    /\ UNCHANGED appVars
    /\ UNCHANGED modelVars

SetTitle ==
    /\ fpc = "title"
    /\ titleEl' = TitleOf(text)
    /\ fpc' = "done"
    /\ UNCHANGED <<text, truncatedText, words, wi, lines, currentLine, displayLines, textEls>>
    /\ UNCHANGED svgVars
    /\ UNCHANGED appVars
    /\ UNCHANGED modelVars

-----------------------------------------------------------------------------
(* The application: TocDataModel, StorageManager.scheduleAutosave,          *)
(* TocApplication and the click handlers of EventHandlers                   *)

AUTOSAVE_DELAY == 2000

\* the step by which the modelled time advances
TimeStep == AUTOSAVE_DELAY \div 2

AgeCap == AUTOSAVE_DELAY + TimeStep

\* TocDataModel.addOutcome on the data
AddOutcome(d, id) ==
    [d EXCEPT !.outcomes = Append(@, MkOutcome(id, <<>>, 0, <<>>))]

RECURSIVE FindIndex(_, _, _)
\* outcomes.findIndex(o => o.id === outcomeId), 0 for -1
FindIndex(outcomes, outcomeId, k) ==
    IF k > Len(outcomes) THEN 0
    ELSE IF outcomes[k].id = outcomeId THEN k
    ELSE FindIndex(outcomes, outcomeId, k + 1)

\* outcomes.splice(index, 1)
Splice(seq, index) == SubSeq(seq, 1, index - 1) \o SubSeq(seq, index + 1, Len(seq))

\* TocDataModel.deleteOutcome on the data
DeleteOutcome(d, outcomeId) ==
    LET index == FindIndex(d.outcomes, outcomeId, 1)
    IN IF index # 0 THEN [d EXCEPT !.outcomes = Splice(@, index)] ELSE d

\* new Date().toISOString(): a timestamp that differs from every timestamp
\* still held (only the equality of timestamps is ever observed, so the
\* smallest number not held stands for "now")
Fresh(held) ==
    CHOOSE n \in 0..Cardinality(held) :
        n \notin held /\ \A m \in 0..(n - 1) : m \in held

\* this.data.lastModified = new Date().toISOString()
Touch(d, now) == [d EXCEPT !.lastModified = now]

\* an id that no outcome, output or indicator carries
NoSuchId == 99

\* crypto.randomUUID(): the ids handed out count up from here, above the
\* outcome ids of the snapshots loaded
FirstFreshId == 3

\* the text typed into a field
Typed == <<"v">>

\* TocDataModel.getOutcome: the index of the first outcome with the id, or 0
OutcomeAt(d, outcomeId) == FindIndex(d.outcomes, outcomeId, 1)

\* TocDataModel.getOutput: the index of the first output with the id in the
\* outcome found, or 0
OutputAt(d, outcomeId, outputId) ==
    LET i == OutcomeAt(d, outcomeId)
    IN IF i = 0 THEN 0 ELSE FindIndex(d.outcomes[i].outputs, outputId, 1)

\* outcome.indicators.find(i => i.id === indicatorId)
OutcomeIndicatorAt(d, outcomeId, indicatorId) ==
    LET i == OutcomeAt(d, outcomeId)
    IN IF i = 0 THEN 0 ELSE FindIndex(d.outcomes[i].indicators, indicatorId, 1)

\* output.indicators.find(i => i.id === indicatorId)
OutputIndicatorAt(d, outcomeId, outputId, indicatorId) ==
    LET i == OutcomeAt(d, outcomeId)
        j == OutputAt(d, outcomeId, outputId)
    IN IF j = 0 THEN 0
       ELSE FindIndex(d.outcomes[i].outputs[j].indicators, indicatorId, 1)

\* mutation: the statement is written into every outcome
UpdateEveryOutcomeStatement(d, outcomeId, statement) ==
    [d EXCEPT !.outcomes =
        [k \in 1..Len(d.outcomes) |-> [d.outcomes[k] EXCEPT !.statement = statement]]]

\* TocDataModel.updateOutcomeStatement on the data
UpdateOutcomeStatement(d, outcomeId, statement) ==
    LET i == OutcomeAt(d, outcomeId)
    IN IF i = 0 THEN d ELSE [d EXCEPT !.outcomes[i].statement = statement]

\* TocDataModel.addOutcomeIndicator on the data
AddOutcomeIndicator(d, outcomeId, id) ==
    LET i == OutcomeAt(d, outcomeId)
    IN IF i = 0 THEN d
       ELSE [d EXCEPT !.outcomes[i].indicators =
                          Append(@, [id |-> id, description |-> <<>>])]

\* TocDataModel.updateOutcomeIndicator on the data
UpdateOutcomeIndicator(d, outcomeId, indicatorId, description) ==
    LET i == OutcomeAt(d, outcomeId)
        q == OutcomeIndicatorAt(d, outcomeId, indicatorId)
    IN IF q = 0 THEN d
       ELSE [d EXCEPT !.outcomes[i].indicators[q].description = description]

\* TocDataModel.deleteOutcomeIndicator on the data
DeleteOutcomeIndicator(d, outcomeId, indicatorId) ==
    LET i == OutcomeAt(d, outcomeId)
        q == OutcomeIndicatorAt(d, outcomeId, indicatorId)
    IN IF q = 0 THEN d
       ELSE [d EXCEPT !.outcomes[i].indicators = Splice(@, q)]

\* TocDataModel.addOutput on the data
AddOutput(d, outcomeId, id) ==
    LET i == OutcomeAt(d, outcomeId)
    IN IF i = 0 THEN d
       ELSE [d EXCEPT !.outcomes[i].outputs =
                          Append(@, [id |-> id, statement |-> <<>>,
                                     indicators |-> <<>>])]

\* TocDataModel.updateOutputStatement on the data
UpdateOutputStatement(d, outcomeId, outputId, statement) ==
    LET i == OutcomeAt(d, outcomeId)
        j == OutputAt(d, outcomeId, outputId)
    IN IF j = 0 THEN d
       ELSE [d EXCEPT !.outcomes[i].outputs[j].statement = statement]

\* TocDataModel.deleteOutput on the data
DeleteOutput(d, outcomeId, outputId) ==
    LET i == OutcomeAt(d, outcomeId)
        j == OutputAt(d, outcomeId, outputId)
    IN IF j = 0 THEN d
       ELSE [d EXCEPT !.outcomes[i].outputs = Splice(@, j)]

\* TocDataModel.addOutputIndicator on the data
AddOutputIndicator(d, outcomeId, outputId, id) ==
    LET i == OutcomeAt(d, outcomeId)
        j == OutputAt(d, outcomeId, outputId)
    IN IF j = 0 THEN d
       ELSE [d EXCEPT !.outcomes[i].outputs[j].indicators =
                          Append(@, [id |-> id, description |-> <<>>])]

\* TocDataModel.updateOutputIndicator on the data
UpdateOutputIndicator(d, outcomeId, outputId, indicatorId, description) ==
    LET i == OutcomeAt(d, outcomeId)
        j == OutputAt(d, outcomeId, outputId)
        q == OutputIndicatorAt(d, outcomeId, outputId, indicatorId)
    IN IF q = 0 THEN d
       ELSE [d EXCEPT !.outcomes[i].outputs[j].indicators[q].description =
                          description]

\* TocDataModel.deleteOutputIndicator on the data
DeleteOutputIndicator(d, outcomeId, outputId, indicatorId) ==
    LET i == OutcomeAt(d, outcomeId)
        j == OutputAt(d, outcomeId, outputId)
        q == OutputIndicatorAt(d, outcomeId, outputId, indicatorId)
    IN IF q = 0 THEN d
       ELSE [d EXCEPT !.outcomes[i].outputs[j].indicators = Splice(@, q)]

\* mutation: only the listener subscribed first is called
NotifyFirstOnly(n, changeType, d) ==
    [k \in 1..(IF n > 0 THEN 1 ELSE 0) |->
        [listener |-> k, changeType |-> changeType, seen |-> d]]

\* TocDataModel.notify(changeType, payload): the calls made, in order, each
\* with the data that the listener finds in the model
Notify(n, changeType, d) ==
    [k \in 1..n |-> [listener |-> k, changeType |-> changeType, seen |-> d]]

\* the ids that the callers of the model hand over: every id of the data
\* and one that nothing carries
OutcomeIds(d) == { d.outcomes[i].id : i \in 1..Len(d.outcomes) } \cup {NoSuchId}

OutputIds(d) ==
    UNION { { d.outcomes[i].outputs[j].id : j \in 1..Len(d.outcomes[i].outputs) } :
            i \in 1..Len(d.outcomes) } \cup {NoSuchId}

IndicatorIds(d) ==
    UNION { { d.outcomes[i].indicators[q].id :
                q \in 1..Len(d.outcomes[i].indicators) } :
            i \in 1..Len(d.outcomes) }
    \cup UNION { UNION { { d.outcomes[i].outputs[j].indicators[q].id :
                             q \in 1..Len(d.outcomes[i].outputs[j].indicators) } :
                         j \in 1..Len(d.outcomes[i].outputs) } :
                 i \in 1..Len(d.outcomes) }
    \cup {NoSuchId}

\* the values typed into a field: text, or nothing
FieldValues == {<<>>, Typed}

\* one call of a mutating method of TocDataModel: when the target is found
\* the data is changed, lastModified is set and the listeners are called
Mutation(op, found, changed, changeType) ==
    /\ apc = "model"
    /\ lastOp.seq < MaxModelCalls
    /\ before' = tocData
    /\ lastOp' = [op EXCEPT !.found = found]
    /\ tocData' = IF found THEN Touch(changed, Fresh({tocData.lastModified}))
                  ELSE tocData
    /\ notifications' = IF found THEN Notify(listeners, changeType, tocData')
                        ELSE <<>>
    /\ UNCHANGED <<apc, listeners, currentView, activeVisualization,
                   previewContent, svgContent, timers, autosaveTimer, timerSeq,
                   sinceChange, autosaves, stored, lastResult, unsaved>>
    /\ UNCHANGED inputVars
    /\ UNCHANGED svgVars
    /\ UNCHANGED fitVars

\* the arguments of a call, and its number
Op(name, outcomeId, outputId, indicatorId) ==
    [op |-> name, outcomeId |-> outcomeId, outputId |-> outputId,
     indicatorId |-> indicatorId, found |-> FALSE, seq |-> lastOp.seq + 1]

\* TocDataModel.subscribe(callback)
Subscribe ==
    /\ apc = "model"
    /\ lastOp.seq < MaxModelCalls
    /\ listeners < MaxListeners
    /\ listeners' = listeners + 1
    /\ notifications' = <<>>
    /\ before' = tocData
    /\ lastOp' = Op("subscribe", 0, 0, 0)
    /\ UNCHANGED appVars
    /\ UNCHANGED svgVars
    /\ UNCHANGED fitVars

\* TocDataModel.addOutcome()
CallAddOutcome ==
    /\ nextId' = nextId + 1
    /\ Mutation(Op("addOutcome", nextId, 0, 0), TRUE,
                AddOutcome(tocData, nextId), "outcome-added")

\* TocDataModel.deleteOutcome(outcomeId)
CallDeleteOutcome ==
    /\ UNCHANGED nextId
    /\ \E outcomeId \in OutcomeIds(tocData) :
          Mutation(Op("deleteOutcome", outcomeId, 0, 0),
                   OutcomeAt(tocData, outcomeId) # 0,
                   DeleteOutcome(tocData, outcomeId), "outcome-deleted")

\* TocDataModel.updateOutcomeStatement(outcomeId, statement)
CallUpdateOutcomeStatement ==
    /\ UNCHANGED nextId
    /\ \E outcomeId \in OutcomeIds(tocData), statement \in FieldValues :
          Mutation(Op("updateOutcomeStatement", outcomeId, 0, 0),
                   OutcomeAt(tocData, outcomeId) # 0,
                   UpdateOutcomeStatement(tocData, outcomeId, statement),
                   "outcome-updated")

\* TocDataModel.addOutcomeIndicator(outcomeId)
CallAddOutcomeIndicator ==
    /\ nextId' = nextId + 1
    /\ \E outcomeId \in OutcomeIds(tocData) :
          Mutation(Op("addOutcomeIndicator", outcomeId, 0, nextId),
                   OutcomeAt(tocData, outcomeId) # 0,
                   AddOutcomeIndicator(tocData, outcomeId, nextId),
                   "outcome-indicator-added")

\* TocDataModel.updateOutcomeIndicator(outcomeId, indicatorId, description)
CallUpdateOutcomeIndicator ==
    /\ UNCHANGED nextId
    /\ \E outcomeId \in OutcomeIds(tocData), indicatorId \in IndicatorIds(tocData),
          description \in FieldValues :
          Mutation(Op("updateOutcomeIndicator", outcomeId, 0, indicatorId),
                   OutcomeIndicatorAt(tocData, outcomeId, indicatorId) # 0,
                   UpdateOutcomeIndicator(tocData, outcomeId, indicatorId,
                                          description),
                   "outcome-indicator-updated")

\* TocDataModel.deleteOutcomeIndicator(outcomeId, indicatorId)
CallDeleteOutcomeIndicator ==
    /\ UNCHANGED nextId
    /\ \E outcomeId \in OutcomeIds(tocData), indicatorId \in IndicatorIds(tocData) :
          Mutation(Op("deleteOutcomeIndicator", outcomeId, 0, indicatorId),
                   OutcomeIndicatorAt(tocData, outcomeId, indicatorId) # 0,
                   DeleteOutcomeIndicator(tocData, outcomeId, indicatorId),
                   "outcome-indicator-deleted")

\* TocDataModel.addOutput(outcomeId)
CallAddOutput ==
    /\ nextId' = nextId + 1
    /\ \E outcomeId \in OutcomeIds(tocData) :
          Mutation(Op("addOutput", outcomeId, nextId, 0),
                   OutcomeAt(tocData, outcomeId) # 0,
                   AddOutput(tocData, outcomeId, nextId), "output-added")

\* TocDataModel.updateOutputStatement(outcomeId, outputId, statement)
CallUpdateOutputStatement ==
    /\ UNCHANGED nextId
    /\ \E outcomeId \in OutcomeIds(tocData), outputId \in OutputIds(tocData),
          statement \in FieldValues :
          Mutation(Op("updateOutputStatement", outcomeId, outputId, 0),
                   OutputAt(tocData, outcomeId, outputId) # 0,
                   UpdateOutputStatement(tocData, outcomeId, outputId, statement),
                   "output-updated")

\* TocDataModel.deleteOutput(outcomeId, outputId)
CallDeleteOutput ==
    /\ UNCHANGED nextId
    /\ \E outcomeId \in OutcomeIds(tocData), outputId \in OutputIds(tocData) :
          Mutation(Op("deleteOutput", outcomeId, outputId, 0),
                   OutputAt(tocData, outcomeId, outputId) # 0,
                   DeleteOutput(tocData, outcomeId, outputId), "output-deleted")

\* TocDataModel.addOutputIndicator(outcomeId, outputId)
CallAddOutputIndicator ==
    /\ nextId' = nextId + 1
    /\ \E outcomeId \in OutcomeIds(tocData), outputId \in OutputIds(tocData) :
          Mutation(Op("addOutputIndicator", outcomeId, outputId, nextId),
                   OutputAt(tocData, outcomeId, outputId) # 0,
                   AddOutputIndicator(tocData, outcomeId, outputId, nextId),
                   "output-indicator-added")

\* TocDataModel.updateOutputIndicator(outcomeId, outputId, indicatorId,
\* description)
CallUpdateOutputIndicator ==
    /\ UNCHANGED nextId
    /\ \E outcomeId \in OutcomeIds(tocData), outputId \in OutputIds(tocData),
          indicatorId \in IndicatorIds(tocData), description \in FieldValues :
          Mutation(Op("updateOutputIndicator", outcomeId, outputId, indicatorId),
                   OutputIndicatorAt(tocData, outcomeId, outputId, indicatorId) # 0,
                   UpdateOutputIndicator(tocData, outcomeId, outputId,
                                         indicatorId, description),
                   "output-indicator-updated")

\* TocDataModel.deleteOutputIndicator(outcomeId, outputId, indicatorId)
CallDeleteOutputIndicator ==
    /\ UNCHANGED nextId
    /\ \E outcomeId \in OutcomeIds(tocData), outputId \in OutputIds(tocData),
          indicatorId \in IndicatorIds(tocData) :
          Mutation(Op("deleteOutputIndicator", outcomeId, outputId, indicatorId),
                   OutputIndicatorAt(tocData, outcomeId, outputId, indicatorId) # 0,
                   DeleteOutputIndicator(tocData, outcomeId, outputId,
                                         indicatorId),
                   "output-indicator-deleted")

\* no call of the model has been made
NoOp ==
    [op |-> "none", outcomeId |-> 0, outputId |-> 0, indicatorId |-> 0,
     found |-> FALSE, seq |-> 0]

\* the model of the application before any call recorded
ModelIdle ==
    /\ listeners = 1
    /\ notifications = <<>>
    /\ before = <<>>
    /\ lastOp = NoOp

\* what a rendering shows of a snapshot: statements and indicator counts
\* in document order (the ids are not displayed)
Rendering(d) ==
    [impact |-> d.impact.statement,
     outcomes |->
        [i \in 1..Len(d.outcomes) |->
            [statement |-> d.outcomes[i].statement,
             indicators |-> Len(d.outcomes[i].indicators),
             outputs |->
                [j \in 1..Len(d.outcomes[i].outputs) |->
                    [statement |-> d.outcomes[i].outputs[j].statement,
                     indicators |-> Len(d.outcomes[i].outputs[j].indicators)]]]]]

\* renderPreviewInline(dataModel): the container is emptied and filled anew
RenderPreviewInline(d) == Rendering(d)

\* renderSVGVisualization(dataModel): the container is emptied and filled anew
RenderSVGVisualization(d) == Rendering(d)

\* mutation: the pending timeout is left running
ClearTimeoutNothing(ts, handle) == ts

\* clearTimeout(handle)
ClearTimeout(ts, handle) == { t \in ts : t.id # handle }

\* StorageManager.scheduleAutosave, the listener of every change notification
ScheduleAutosave ==
    /\ timerSeq' = timerSeq + 1
    /\ timers' = ClearTimeout(timers, autosaveTimer)
                    \cup {[id |-> timerSeq + 1, remaining |-> AUTOSAVE_DELAY]}
    /\ autosaveTimer' = timerSeq + 1
    /\ sinceChange' = 0
    /\ autosaves' = 0

\* a document written by the application, found in localStorage or
\* imported from a file or a URL
StoredSnapshots ==
    { MkSnapshot(<<"X">>,
          << MkOutcome(1, <<"o">>, 0, << MkOutput(1, 1, <<"p">>, 1) >>) >>) }

\* an object that isValidData rejects: the impact statement is empty
InvalidDocuments ==
    { MkSnapshot(<<>>, << MkOutcome(1, <<"o">>, 0, <<>>) >>) }

\* what a file, a URL or localStorage can hold
ImportCandidates == StoredSnapshots \cup InvalidDocuments

\* JSON.stringify(data): the text written to localStorage, which holds the
\* data with its lastModified; two texts are equal exactly when the data
\* serialised are
JSONStringify(d) == <<d>>

\* JSON.parse(stored)
JSONParse(item) == item[1]

\* mutation: the item found is handed on without validation
LoadUnchecked(item) == IF item = <<>> THEN <<>> ELSE <<JSONParse(item)>>

\* StorageManager.load(): the data of the item, or <<>> for null when there
\* is no item or isValidData rejects it
Load(item) ==
    IF item = <<>> THEN <<>>
    ELSE IF IsValidData(JSONParse(item)) THEN <<JSONParse(item)>>
    ELSE <<>>

\* importFromJSON(file, storage): the data read, or <<>> when the promise is
\* rejected
ImportFromJSON(content) == IF IsValidData(content) THEN <<content>> ELSE <<>>

\* importFromURL(url, storage): the data fetched, or <<>> when it throws
ImportFromURL(content) == IF IsValidData(content) THEN <<content>> ELSE <<>>

\* the timestamps held in an item of localStorage
StampsOf(item) ==
    { item[k].lastModified :
        k \in { q \in 1..Len(item) : Has(item[q], "lastModified") } }

StoredStamps == StampsOf(stored)

\* StorageManager.save(): data.lastModified = new Date().toISOString()
SaveData(d, now) == Touch(d, now)

\* mutation: the text is made before lastModified is set
SaveItemStale(d, now) == JSONStringify(d)

\* StorageManager.save(): the text handed to localStorage.setItem
SaveItem(d, now) == JSONStringify(SaveData(d, now))

\* StorageManager.save() on the data d of the model; ok is false when the
\* text is too long or localStorage.setItem throws
StorageSave(d, ok) ==
    LET now == Fresh(IF ok THEN {} ELSE StoredStamps)
    IN /\ tocData' = SaveData(d, now)
       /\ stored' = IF ok THEN SaveItem(d, now) ELSE stored

\* the ids of a document
IdsOf(d) ==
    IF Has(d, "outcomes") THEN OutcomeIds(d) \cup OutputIds(d) \cup IndicatorIds(d)
    ELSE {}

\* the ids that the model, localStorage, the input elements typed into and
\* the pending input events hold
HeldIds ==
    IdsOf(tocData) \cup UNION { IdsOf(stored[k]) : k \in 1..Len(stored) }
        \cup UNION { {e.field.outcomeId, e.field.outputId, e.field.indicatorId} :
                     e \in fieldValue }

\* crypto.randomUUID() in the application: an id that nothing holds (only
\* the equality of ids is ever observed, so the smallest number not held
\* stands for the new id)
RandomUUID ==
    CHOOSE n \in FirstFreshId..(FirstFreshId + Cardinality(HeldIds)) :
        /\ n \notin HeldIds
        /\ \A m \in FirstFreshId..(n - 1) : m \in HeldIds

\* a mutating method of TocDataModel that found its target, called by a
\* handler of the application: lastModified is set and the one listener,
\* scheduleAutosave, is called
ModelChange(changed) ==
    /\ tocData' = Touch(changed, Fresh(StoredStamps))
    /\ ScheduleAutosave
    /\ unsaved' = (unsaved \/ currentView = "edit")

\* TocApplication.render()
RenderAll(d) ==
    /\ previewContent' = RenderPreviewInline(d)
    /\ svgContent' = RenderSVGVisualization(d)

\* a click handler of the edit view that changes the model
ClickMutation(found, changed) ==
    /\ apc = "running"
    /\ currentView = "edit"
    /\ timerSeq < MaxChanges
    /\ IF found THEN ModelChange(changed)
       ELSE UNCHANGED <<tocData, timers, autosaveTimer, timerSeq, sinceChange,
                        autosaves, unsaved>>
    /\ lastResult' = "none"
    /\ UNCHANGED <<apc, currentView, activeVisualization, previewContent,
                   svgContent, stored>>
    /\ UNCHANGED inputVars
    /\ UNCHANGED svgVars
    /\ UNCHANGED fitVars
    /\ UNCHANGED modelVars

\* click on add-outcome (a button of the edit view)
HandleAddOutcome ==
    /\ Len(tocData.outcomes) < MaxAppOutcomes
    /\ UNCHANGED nextId
    /\ ClickMutation(TRUE, AddOutcome(tocData, RandomUUID))

\* click on delete-outcome (edit view), the confirm dialog accepted
HandleDeleteOutcome ==
    /\ UNCHANGED nextId
    /\ \E k \in 1..Len(tocData.outcomes) :
          ClickMutation(TRUE, DeleteOutcome(tocData, tocData.outcomes[k].id))

\* click on add-outcome-indicator
HandleAddOutcomeIndicator ==
    /\ UNCHANGED nextId
    /\ \E k \in 1..Len(tocData.outcomes) :
          /\ Len(tocData.outcomes[k].indicators) < MaxAppItems
          /\ ClickMutation(TRUE,
                 AddOutcomeIndicator(tocData, tocData.outcomes[k].id, RandomUUID))

\* click on delete-outcome-indicator
HandleDeleteOutcomeIndicator ==
    /\ UNCHANGED nextId
    /\ \E k \in 1..Len(tocData.outcomes) :
          \E q \in 1..Len(tocData.outcomes[k].indicators) :
              ClickMutation(TRUE,
                  DeleteOutcomeIndicator(tocData, tocData.outcomes[k].id,
                                         tocData.outcomes[k].indicators[q].id))

\* click on add-output
HandleAddOutput ==
    /\ UNCHANGED nextId
    /\ \E k \in 1..Len(tocData.outcomes) :
          /\ Len(tocData.outcomes[k].outputs) < MaxAppItems
          /\ ClickMutation(TRUE, AddOutput(tocData, tocData.outcomes[k].id, RandomUUID))

\* click on delete-output, the confirm dialog accepted
HandleDeleteOutput ==
    /\ UNCHANGED nextId
    /\ \E k \in 1..Len(tocData.outcomes) :
          \E j \in 1..Len(tocData.outcomes[k].outputs) :
              ClickMutation(OutputAt(tocData, tocData.outcomes[k].id,
                                     tocData.outcomes[k].outputs[j].id) # 0,
                  DeleteOutput(tocData, tocData.outcomes[k].id,
                               tocData.outcomes[k].outputs[j].id))

\* click on add-output-indicator
HandleAddOutputIndicator ==
    /\ UNCHANGED nextId
    /\ \E k \in 1..Len(tocData.outcomes) :
          \E j \in 1..Len(tocData.outcomes[k].outputs) :
              /\ Len(tocData.outcomes[k].outputs[j].indicators) < MaxAppItems
              /\ ClickMutation(OutputAt(tocData, tocData.outcomes[k].id,
                                        tocData.outcomes[k].outputs[j].id) # 0,
                     AddOutputIndicator(tocData, tocData.outcomes[k].id,
                                        tocData.outcomes[k].outputs[j].id, RandomUUID))

\* click on delete-output-indicator
HandleDeleteOutputIndicator ==
    /\ UNCHANGED nextId
    /\ \E k \in 1..Len(tocData.outcomes) :
          \E j \in 1..Len(tocData.outcomes[k].outputs) :
              \E q \in 1..Len(tocData.outcomes[k].outputs[j].indicators) :
                  ClickMutation(
                      OutputIndicatorAt(tocData, tocData.outcomes[k].id,
                          tocData.outcomes[k].outputs[j].id,
                          tocData.outcomes[k].outputs[j].indicators[q].id) # 0,
                      DeleteOutputIndicator(tocData, tocData.outcomes[k].id,
                          tocData.outcomes[k].outputs[j].id,
                          tocData.outcomes[k].outputs[j].indicators[q].id))

\* click on save: EventHandlers.handleSave
HandleSave ==
    /\ apc = "running"
    /\ \E ok \in BOOLEAN :
          /\ StorageSave(tocData, ok)
          /\ lastResult' = IF ok THEN "saved" ELSE "save-failed"
          /\ unsaved' = IF ok THEN FALSE ELSE unsaved
    /\ UNCHANGED <<apc, nextId, currentView, activeVisualization, previewContent,
                   svgContent, timers, autosaveTimer, timerSeq, sinceChange,
                   autosaves>>
    /\ UNCHANGED inputVars
    /\ UNCHANGED svgVars
    /\ UNCHANGED fitVars
    /\ UNCHANGED modelVars

\* importTocData / importTocDataFromURL with the data that
\* importFromJSON / importFromURL hand over (<<>>: none): false when the
\* user declines to replace the data or no data is handed over; otherwise
\* setData, which notifies, then storage.save(), and false when that fails
ImportTocData(imported, confirmed, saved) ==
    IF (Len(tocData.outcomes) > 0 /\ ~confirmed) \/ imported = <<>>
    THEN /\ lastResult' = "import-false"
         /\ UNCHANGED <<tocData, stored, timers, autosaveTimer, timerSeq,
                        sinceChange, autosaves, unsaved>>
    ELSE /\ ScheduleAutosave
         /\ StorageSave(imported[1], saved)
         /\ lastResult' = IF saved THEN "import-true" ELSE "import-false"
         /\ unsaved' = IF saved THEN FALSE ELSE unsaved

\* click on import-json: the handler renders when importTocData returned true
HandleImportJSON ==
    /\ apc = "running"
    /\ timerSeq < MaxChanges
    /\ \E content \in ImportCandidates, confirmed \in BOOLEAN, saved \in BOOLEAN :
          ImportTocData(ImportFromJSON(content), confirmed, saved)
    /\ IF lastResult' = "import-true" THEN RenderAll(tocData')
       ELSE UNCHANGED <<previewContent, svgContent>>
    /\ UNCHANGED <<apc, nextId, currentView, activeVisualization>>
    /\ UNCHANGED inputVars
    /\ UNCHANGED svgVars
    /\ UNCHANGED fitVars
    /\ UNCHANGED modelVars

\* click on import-url (preview view), a URL entered: as for a file, and
\* the preview view is shown on success
HandleImportURL ==
    /\ apc = "running"
    /\ timerSeq < MaxChanges
    /\ \E content \in ImportCandidates, confirmed \in BOOLEAN, saved \in BOOLEAN :
          ImportTocData(ImportFromURL(content), confirmed, saved)
    /\ IF lastResult' = "import-true"
       THEN /\ RenderAll(tocData')
            /\ currentView' = "preview"
       ELSE UNCHANGED <<previewContent, svgContent, currentView>>
    /\ UNCHANGED <<apc, nextId, activeVisualization>>
    /\ UNCHANGED inputVars
    /\ UNCHANGED svgVars
    /\ UNCHANGED fitVars
    /\ UNCHANGED modelVars

\* TocApplication.switchView(view), from the buttons of the header
SwitchView(view) ==
    /\ apc = "running"
    /\ currentView # view
    /\ currentView' = view
    /\ IF view = "preview"
       THEN previewContent' = RenderPreviewInline(tocData)
       ELSE UNCHANGED previewContent
    /\ lastResult' = "none"
    /\ UNCHANGED <<apc, tocData, nextId, activeVisualization, svgContent, timers,
                   autosaveTimer, timerSeq, sinceChange, autosaves, stored, unsaved>>
    /\ UNCHANGED inputVars
    /\ UNCHANGED svgVars
    /\ UNCHANGED fitVars
    /\ UNCHANGED modelVars

HandleSwitchToPreview == SwitchView("preview")

HandleSwitchToEdit == SwitchView("edit")

\* EventHandlers.handleSwitchVisualization(type), from the toggle of the
\* preview view
HandleSwitchVisualization(type) ==
    /\ apc = "running"
    /\ currentView = "preview"
    /\ activeVisualization # type
    /\ activeVisualization' = type
    /\ IF type = "diagram"
       THEN svgContent' = RenderSVGVisualization(tocData)
       ELSE UNCHANGED svgContent
    /\ lastResult' = "none"
    /\ UNCHANGED <<apc, tocData, nextId, currentView, previewContent, timers,
                   autosaveTimer, timerSeq, sinceChange, autosaves, stored, unsaved>>
    /\ UNCHANGED inputVars
    /\ UNCHANGED svgVars
    /\ UNCHANGED fitVars
    /\ UNCHANGED modelVars

HandleSwitchToText == HandleSwitchVisualization("text")

HandleSwitchToDiagram == HandleSwitchVisualization("diagram")

\* the listener of beforeunload: no warning outside the edit view; in the
\* edit view a warning when the text of the data is not the item stored
BeforeUnload ==
    /\ apc = "running"
    /\ lastResult' = IF currentView # "edit" THEN "not-warned"
                     ELSE IF JSONStringify(tocData) # stored THEN "warned"
                     ELSE "not-warned"
    /\ UNCHANGED <<apc, tocData, nextId, currentView, activeVisualization,
                   previewContent, svgContent, timers, autosaveTimer, timerSeq,
                   sinceChange, autosaves, stored, unsaved>>
    /\ UNCHANGED inputVars
    /\ UNCHANGED svgVars
    /\ UNCHANGED fitVars
    /\ UNCHANGED modelVars

\* the delay of the debounced input listener
DEBOUNCE_DELAY == 500

\* the input elements of the edit view, by the data attributes they carry
Fields(d) ==
    { [kind |-> "outcome-statement", outcomeId |-> d.outcomes[i].id,
       outputId |-> 0, indicatorId |-> 0] : i \in 1..Len(d.outcomes) }
    \cup UNION { { [kind |-> "output-statement", outcomeId |-> d.outcomes[i].id,
                     outputId |-> d.outcomes[i].outputs[j].id, indicatorId |-> 0] :
                    j \in 1..Len(d.outcomes[i].outputs) } :
                  i \in 1..Len(d.outcomes) }
    \cup UNION { { [kind |-> "outcome-indicator", outcomeId |-> d.outcomes[i].id,
                     outputId |-> 0,
                     indicatorId |-> d.outcomes[i].indicators[q].id] :
                    q \in 1..Len(d.outcomes[i].indicators) } :
                  i \in 1..Len(d.outcomes) }
    \cup UNION { UNION { { [kind |-> "output-indicator",
                             outcomeId |-> d.outcomes[i].id,
                             outputId |-> d.outcomes[i].outputs[j].id,
                             indicatorId |->
                                 d.outcomes[i].outputs[j].indicators[q].id] :
                            q \in 1..Len(d.outcomes[i].outputs[j].indicators) } :
                          j \in 1..Len(d.outcomes[i].outputs) } :
                  i \in 1..Len(d.outcomes) }

\* target.value of an element that was typed into
ValueOf(target) == (CHOOSE e \in fieldValue : e.field = target).value

\* debounce(fn, 500) called with an event: the pending timeout is cleared
\* and one is set for this event
Debounce(timer, target) == << [target |-> target, remaining |-> DEBOUNCE_DELAY] >>

\* the user types into an input element of the edit view: the input event
\* reaches the debounced listener of the document
TypeInto ==
    /\ apc = "running"
    /\ currentView = "edit"
    /\ typed < MaxTyped
    /\ \E target \in Fields(tocData), value \in FieldValues :
          /\ fieldValue' = { e \in fieldValue : e.field # target }
                              \cup {[field |-> target, value |-> value]}
          /\ inputTimer' = Debounce(inputTimer, target)
    /\ typed' = typed + 1
    /\ lastResult' = "none"
    /\ UNCHANGED <<apc, tocData, nextId, currentView, activeVisualization,
                   previewContent, svgContent, timers, autosaveTimer, timerSeq,
                   sinceChange, autosaves, stored, unsaved>>
    /\ UNCHANGED svgVars
    /\ UNCHANGED fitVars
    /\ UNCHANGED modelVars

\* EventHandlers.handleInput(e): whether the method called finds its target
InputFound(d, target) ==
    CASE target.kind = "outcome-statement" -> OutcomeAt(d, target.outcomeId) # 0
      [] target.kind = "output-statement" ->
            OutputAt(d, target.outcomeId, target.outputId) # 0
      [] target.kind = "outcome-indicator" ->
            OutcomeIndicatorAt(d, target.outcomeId, target.indicatorId) # 0
      [] target.kind = "output-indicator" ->
            OutputIndicatorAt(d, target.outcomeId, target.outputId,
                              target.indicatorId) # 0

\* EventHandlers.handleInput(e): the data after the method called
HandleInput(d, target, value) ==
    CASE target.kind = "outcome-statement" ->
            UpdateOutcomeStatement(d, target.outcomeId, value)
      [] target.kind = "output-statement" ->
            UpdateOutputStatement(d, target.outcomeId, target.outputId, value)
      [] target.kind = "outcome-indicator" ->
            UpdateOutcomeIndicator(d, target.outcomeId, target.indicatorId, value)
      [] target.kind = "output-indicator" ->
            UpdateOutputIndicator(d, target.outcomeId, target.outputId,
                                  target.indicatorId, value)

\* a timeout of the debounced listener runs handleInput with its event
DebounceTimeout ==
    /\ apc = "running"
    /\ \E k \in 1..Len(inputTimer) :
          /\ inputTimer[k].remaining = 0
          /\ inputTimer' = Splice(inputTimer, k)
          /\ IF InputFound(tocData, inputTimer[k].target)
             THEN ModelChange(HandleInput(tocData, inputTimer[k].target,
                                          ValueOf(inputTimer[k].target)))
             ELSE UNCHANGED <<tocData, timers, autosaveTimer, timerSeq,
                              sinceChange, autosaves, unsaved>>
    /\ lastResult' = "none"
    /\ UNCHANGED <<apc, nextId, currentView, activeVisualization, previewContent,
                   svgContent, stored, fieldValue, typed>>
    /\ UNCHANGED svgVars
    /\ UNCHANGED fitVars
    /\ UNCHANGED modelVars

\* the smallest number of a set
SetMin(S) == CHOOSE x \in S : \A y \in S : x <= y

\* the time to the next timeout, TimeStep at most
TimeAdvance ==
    SetMin({TimeStep} \cup { t.remaining : t \in timers }
               \cup { inputTimer[k].remaining : k \in 1..Len(inputTimer) })

\* the time advances to the next timeout, by one step at most
Tick ==
    /\ apc = "running"
    /\ \A t \in timers : t.remaining > 0
    /\ \A k \in 1..Len(inputTimer) : inputTimer[k].remaining > 0
    /\ \/ timers # {}
       \/ inputTimer # <<>>
       \/ sinceChange >= 0 /\ sinceChange < AgeCap
    /\ timers' = { [t EXCEPT !.remaining = @ - TimeAdvance] : t \in timers }
    /\ inputTimer' = [k \in 1..Len(inputTimer) |->
                         [inputTimer[k] EXCEPT !.remaining = @ - TimeAdvance]]
    /\ sinceChange' = IF sinceChange < 0 THEN sinceChange
                      ELSE IF sinceChange + TimeAdvance > AgeCap THEN AgeCap
                      ELSE sinceChange + TimeAdvance
    /\ UNCHANGED <<apc, tocData, nextId, currentView, activeVisualization,
                   previewContent, svgContent, autosaveTimer, timerSeq, autosaves,
                   stored, lastResult, unsaved, fieldValue, typed>>
    /\ UNCHANGED svgVars
    /\ UNCHANGED fitVars
    /\ UNCHANGED modelVars

\* the callback of scheduleAutosave runs: this.save()
AutosaveTimeout ==
    /\ apc = "running"
    /\ \E t \in timers :
          /\ t.remaining = 0
          /\ timers' = timers \ {t}
    /\ \E ok \in BOOLEAN :
          /\ StorageSave(tocData, ok)
          /\ lastResult' = IF ok THEN "saved" ELSE "save-failed"
          /\ unsaved' = IF ok THEN FALSE ELSE unsaved
    /\ autosaves' = IF autosaves < 2 THEN autosaves + 1 ELSE autosaves
    /\ UNCHANGED <<apc, nextId, currentView, activeVisualization,
                   previewContent, svgContent, autosaveTimer, timerSeq, sinceChange>>
    /\ UNCHANGED inputVars
    /\ UNCHANGED svgVars
    /\ UNCHANGED fitVars
    /\ UNCHANGED modelVars

\* no element has been typed into
InputIdle ==
    /\ fieldValue = {}
    /\ inputTimer = <<>>
    /\ typed = 0

AppIdle ==
    /\ apc = "idle"
    /\ tocData = MkSnapshot(<<"X">>, <<>>)
    /\ nextId = FirstFreshId
    /\ currentView = "preview"
    /\ activeVisualization = "text"
    /\ previewContent = <<>>
    /\ svgContent = <<>>
    /\ timers = {}
    /\ autosaveTimer = 0
    /\ timerSeq = 0
    /\ sinceChange = -1
    /\ autosaves = 0
    /\ stored = <<>>
    /\ lastResult = "none"
    /\ unsaved = FALSE
    /\ InputIdle
    /\ ModelIdle

-----------------------------------------------------------------------------
(* Specifications *)

InitSVG ==
    /\ data \in Snapshots
    /\ pc = "collect"
    /\ oi = 1
    /\ oj = 1
    /\ outputsMap = <<>>
    /\ totalWidth = 0
    /\ totalHeight = 0
    /\ svg = <<>>
    /\ outcomeNodes = <<>>
    /\ outputNodes = <<>>
    /\ li = 0
    /\ returned = <<>>
    /\ calls = 0
    /\ FitIdle
    /\ AppIdle

NextSVG ==
    \/ ForEachThrows
    \/ CollectOutput
    \/ CollectNextOutcome
    \/ CalculateDimensions
    \/ CreateSVG
    \/ LayerImpact
    \/ LayerOutcome
    \/ OutcomesDone
    \/ LayerOutput
    \/ ReturnSVG
    \/ InvokeAgain

SpecSVG == InitSVG /\ [][NextSVG]_vars

InitFit ==
    /\ text \in FitTexts
    /\ fpc = "truncate"
    /\ truncatedText = <<>>
    /\ words = <<>>
    /\ wi = 0
    /\ lines = <<>>
    /\ currentLine = <<>>
    /\ displayLines = <<>>
    /\ textEls = <<>>
    /\ titleEl = <<>>
    /\ SvgIdle
    /\ AppIdle

NextFit ==
    \/ TruncateText
    \/ SplitWords
    \/ WrapNextWord
    \/ WrapFlush
    \/ DisplayText
    \/ SetTitle

SpecFit == InitFit /\ [][NextFit]_vars

\* what localStorage holds when the page is opened
StoredItems == {<<>>} \cup { JSONStringify(d) : d \in ImportCandidates }

\* the state after the constructor and initialize(urlParam). With data
\* fetched from the URL (fetched # <<>>): setData, which notifies, and
\* storage.save(). Without a url parameter, or when importFromURL throws:
\* the data that load() returns is handed to setData, and the default
\* structure is kept when it returns null. Then render()
Initialized(item, fetched, ok) ==
    /\ IF fetched # <<>>
       THEN /\ tocData = SaveData(fetched[1], Fresh(IF ok THEN {} ELSE StampsOf(item)))
            /\ stored = IF ok THEN JSONStringify(tocData) ELSE item
       ELSE /\ tocData = IF Load(item) # <<>> THEN Load(item)[1]
                         ELSE MkSnapshot(<<"X">>, <<>>)
            /\ stored = item
    /\ IF fetched # <<>> \/ Load(item) # <<>>
       THEN /\ timers = {[id |-> 1, remaining |-> AUTOSAVE_DELAY]}
            /\ autosaveTimer = 1
            /\ timerSeq = 1
            /\ sinceChange = 0
       ELSE /\ timers = {}
            /\ autosaveTimer = 0
            /\ timerSeq = 0
            /\ sinceChange = -1

InitApp ==
    /\ apc = "running"
    /\ nextId = FirstFreshId
    /\ currentView = "preview"
    /\ activeVisualization = "text"
    /\ \E item \in StoredItems, content \in ImportCandidates, url \in BOOLEAN,
          ok \in BOOLEAN :
          Initialized(item, IF url THEN ImportFromURL(content) ELSE <<>>, ok)
    /\ autosaves = 0
    /\ lastResult = "none"
    /\ unsaved = FALSE
    /\ previewContent = RenderPreviewInline(tocData)
    /\ svgContent = RenderSVGVisualization(tocData)
    /\ InputIdle
    /\ ModelIdle
    /\ SvgIdle
    /\ FitIdle

NextApp ==
    \/ HandleAddOutcome
    \/ HandleDeleteOutcome
    \/ HandleSave
    \/ HandleImportJSON
    \/ HandleImportURL
    \/ HandleSwitchToPreview
    \/ HandleSwitchToEdit
    \/ HandleSwitchToText
    \/ HandleSwitchToDiagram
    \/ BeforeUnload
    \/ Tick
    \/ AutosaveTimeout

SpecApp == InitApp /\ [][NextApp]_vars

\* the event loop lets the time pass and runs the timeouts that are due
SpecAppLive ==
    /\ InitApp
    /\ [][NextApp]_vars
    /\ WF_vars(Tick)
    /\ WF_vars(AutosaveTimeout)

\* the application with every click handler that changes the model
NextEdit ==
    \/ NextApp
    \/ HandleAddOutcomeIndicator
    \/ HandleDeleteOutcomeIndicator
    \/ HandleAddOutput
    \/ HandleDeleteOutput
    \/ HandleAddOutputIndicator
    \/ HandleDeleteOutputIndicator

SpecEdit == InitApp /\ [][NextEdit]_vars

\* the edit view of a document with every kind of input element, just
\* loaded from localStorage
InitInput ==
    /\ apc = "running"
    /\ nextId = FirstFreshId
    /\ currentView = "edit"
    /\ activeVisualization = "text"
    /\ tocData = MkSnapshot(<<"X">>,
                     << MkOutcome(1, <<"A">>, 1, << MkOutput(1, 1, <<"a">>, 1) >>) >>)
    /\ stored = JSONStringify(tocData)
    /\ timers = {}
    /\ autosaveTimer = 0
    /\ timerSeq = 0
    /\ sinceChange = -1
    /\ autosaves = 0
    /\ lastResult = "none"
    /\ unsaved = FALSE
    /\ previewContent = RenderPreviewInline(tocData)
    /\ svgContent = RenderSVGVisualization(tocData)
    /\ InputIdle
    /\ ModelIdle
    /\ SvgIdle
    /\ FitIdle

NextInput ==
    \/ TypeInto
    \/ DebounceTimeout
    \/ Tick
    \/ AutosaveTimeout

SpecInput == InitInput /\ [][NextInput]_vars

\* the event loop lets the time pass and runs the timeouts that are due
SpecInputLive ==
    /\ InitInput
    /\ [][NextInput]_vars
    /\ WF_vars(Tick)
    /\ WF_vars(DebounceTimeout)
    /\ WF_vars(AutosaveTimeout)

\* the data that the calls of TocDataModel start from: the default
\* structure, a document with every kind of item, and one in which two
\* outcomes carry the same id (isValidData does not ask for distinct ids)
ModelSnapshots ==
    { MkSnapshot(<<"X">>, <<>>),
      MkSnapshot(<<"X">>,
          << MkOutcome(1, <<"A">>, 1, << MkOutput(1, 1, <<"a">>, 1) >>),
             MkOutcome(2, <<"B">>, 0, <<>>) >>),
      MkSnapshot(<<"X">>,
          << MkOutcome(1, <<"A">>, 0, <<>>), MkOutcome(1, <<"B">>, 0, <<>>) >>) }

\* a TocDataModel holding one of the snapshots, with no listener or one
InitModel ==
    /\ apc = "model"
    /\ tocData \in ModelSnapshots
    /\ nextId = FirstFreshId
    /\ listeners \in 0..MaxListeners
    /\ notifications = <<>>
    /\ before = tocData
    /\ lastOp = NoOp
    /\ currentView = "preview"
    /\ activeVisualization = "text"
    /\ previewContent = <<>>
    /\ svgContent = <<>>
    /\ timers = {}
    /\ autosaveTimer = 0
    /\ timerSeq = 0
    /\ sinceChange = -1
    /\ autosaves = 0
    /\ stored = <<>>
    /\ lastResult = "none"
    /\ unsaved = FALSE
    /\ InputIdle
    /\ SvgIdle
    /\ FitIdle

NextModel ==
    \/ Subscribe
    \/ CallAddOutcome
    \/ CallDeleteOutcome
    \/ CallUpdateOutcomeStatement
    \/ CallAddOutcomeIndicator
    \/ CallUpdateOutcomeIndicator
    \/ CallDeleteOutcomeIndicator
    \/ CallAddOutput
    \/ CallUpdateOutputStatement
    \/ CallDeleteOutput
    \/ CallAddOutputIndicator
    \/ CallUpdateOutputIndicator
    \/ CallDeleteOutputIndicator

SpecModel == InitModel /\ [][NextModel]_vars

Init == InitSVG \/ InitFit \/ InitApp \/ InitModel \/ InitInput

Next == NextSVG \/ NextFit \/ NextEdit \/ NextInput \/ NextModel

Spec == Init /\ [][Next]_vars

-----------------------------------------------------------------------------
(* Vocabulary of the properties, stated on the snapshot and on the scene *)

Range(f) == { f[k] : k \in DOMAIN f }

RECURSIVE FlatOutputs(_, _)
\* every Output of the snapshot in walk order, with the index of its Outcome
FlatOutputs(outcomes, i) ==
    IF i > Len(outcomes) THEN <<>>
    ELSE [j \in 1..Len(outcomes[i].outputs) |->
             [owner |-> i, output |-> outcomes[i].outputs[j]]]
         \o FlatOutputs(outcomes, i + 1)

Flat == FlatOutputs(data.outcomes, 1)

Blank(s) == \A k \in 1..Len(s) : s[k] = " "
FirstInk(s) == CHOOSE k \in 1..Len(s) : s[k] # " " /\ \A q \in 1..(k - 1) : s[q] = " "
LastInk(s) == CHOOSE k \in 1..Len(s) : s[k] # " " /\ \A q \in (k + 1)..Len(s) : s[q] = " "
SameLetter(c, d) ==
    \/ c = d
    \/ \E k \in 1..Len(Uppers) : {c, d} = {Uppers[k], Lowers[k]}

\* the two statements are equal once trimmed and case-folded
SameStatement(s, t) ==
    IF Blank(s) \/ Blank(t) THEN Blank(s) /\ Blank(t)
    ELSE /\ LastInk(s) - FirstInk(s) = LastInk(t) - FirstInk(t)
         /\ \A k \in 0..(LastInk(s) - FirstInk(s)) :
                SameLetter(s[FirstInk(s) + k], t[FirstInk(t) + k])

\* positions of Flat whose statement was not seen before
IsFirstSeen(q) ==
    \A p \in 1..(q - 1) : ~SameStatement(Flat[p].output.statement, Flat[q].output.statement)

RECURSIVE FirstSeenFrom(_)
FirstSeenFrom(q) ==
    IF q > Len(Flat) THEN <<>>
    ELSE (IF IsFirstSeen(q) THEN <<Flat[q].output>> ELSE <<>>) \o FirstSeenFrom(q + 1)

FirstSeen == FirstSeenFrom(1)

\* indices of the Outcomes that own an Output with this statement
Owners(stmt) ==
    { i \in 1..Len(data.outcomes) :
        \E j \in 1..Len(data.outcomes[i].outputs) :
            SameStatement(data.outcomes[i].outputs[j].statement, stmt) }

RECURSIVE OwnerIdsFrom(_, _)
OwnerIdsFrom(stmt, i) ==
    IF i > Len(data.outcomes) THEN <<>>
    ELSE (IF i \in Owners(stmt) THEN <<data.outcomes[i].id>> ELSE <<>>)
         \o OwnerIdsFrom(stmt, i + 1)

Collected == pc \in {"createSvg", "impact", "outcomes", "outputs", "done"}

IsGroup(el) == el.tag = "g"
IsPath(el) == el.tag = "path"
IsOutcomeGroup(el) == el.tag = "g" /\ el.label.kind = "Outcome"
IsOutputGroup(el) ==
    el.tag = "g" /\ el.label.kind \in {"Output", "Output (shared across N outcomes)"}

Groups == SelectSeq(svg, IsGroup)
Paths == SelectSeq(svg, IsPath)
OutcomeGroups == SelectSeq(svg, IsOutcomeGroup)
OutputGroups == SelectSeq(svg, IsOutputGroup)

\* connectors that end on the top-centre of the box of this output node
ConnectorsInto(g) ==
    { k \in 1..Len(svg) :
        /\ IsPath(svg[k])
        /\ svg[k].y2 = g.y
        /\ FEq(svg[k].x2, FAdd(g.x, Frac(g.width, 2))) }

-----------------------------------------------------------------------------
(* Properties of the deduplication *)

\* C1: after the deduplication pass every unique output entry lists the id
\* of each Outcome owning an Output with its normalized statement exactly
\* once, in first-seen order (also when one Outcome lists it twice).
C1_OutcomeIdsOnce ==
    Collected =>
        \A k \in 1..Len(uniqueOutputs) :
            uniqueOutputs[k].outcomeIds
                = OwnerIdsFrom(uniqueOutputs[k].output.statement, 1)

\* C2: the number of Outcome->Output connectors drawn to a unique output
\* node is the number of distinct Outcomes contributing to it.
C2_ConnectorsPerNode ==
    pc = "done" =>
        \A k \in 1..Len(OutputGroups) :
            Cardinality(ConnectorsInto(OutputGroups[k]))
                = Cardinality(Owners(OutputGroups[k].title))

\* C3: Outputs share a unique output node exactly when their statements are
\* equal after trimming and lowercasing: no two nodes stand for the same
\* normalized statement, every Output has the node of its normalized
\* statement, and there are as many nodes as distinct normalized statements.
C3_MergedIffSameStatement ==
    /\ Collected =>
        /\ \A a, b \in 1..Len(uniqueOutputs) :
               SameStatement(uniqueOutputs[a].output.statement,
                             uniqueOutputs[b].output.statement) => a = b
        /\ \A q \in 1..Len(Flat) : \E a \in 1..Len(uniqueOutputs) :
               SameStatement(uniqueOutputs[a].output.statement,
                             Flat[q].output.statement)
        /\ Len(uniqueOutputs) = Len(FirstSeen)
    /\ pc = "done" => Len(OutputGroups) = Len(FirstSeen)

C3_Witness ==
    /\ pc = "done"
    /\ Len(OutputGroups) >= 2
    /\ \E p \in 1..Len(Flat) : Blank(Flat[p].output.statement)
    /\ \E p, q \in 1..Len(Flat) :
          /\ Flat[p].output.statement # Flat[q].output.statement
          /\ SameStatement(Flat[p].output.statement, Flat[q].output.statement)
          /\ ~Blank(Flat[p].output.statement)

\* C4: the unique output nodes stand left to right in first-seen order of
\* their normalized statement, each showing the statement and the indicator
\* count of the first-seen occurrence.
C4_FirstSeenOrder ==
    pc = "done" =>
        /\ Len(OutputGroups) = Len(FirstSeen)
        /\ \A k \in 1..Len(OutputGroups) :
              /\ k <= Len(FirstSeen)
              /\ OutputGroups[k].title = FirstSeen[k].statement
              /\ OutputGroups[k].lines
                    = TextContents(WrapLines(Truncate(FirstSeen[k].statement)),
                          SliceLines(WrapLines(Truncate(FirstSeen[k].statement))))
              /\ OutputGroups[k].indicatorCount = Len(FirstSeen[k].indicators)
              /\ k > 1 => FLt(OutputGroups[k - 1].x, OutputGroups[k].x)

C4_Witness ==
    /\ pc = "done"
    /\ Len(OutputGroups) >= 2
    /\ \E p, q \in 1..Len(Flat) :
          /\ p < q
          /\ SameStatement(Flat[p].output.statement, Flat[q].output.statement)
          /\ Flat[p].output.statement # Flat[q].output.statement
          /\ Len(Flat[p].output.indicators) # Len(Flat[q].output.indicators)
          /\ ~SameStatement(Flat[1].output.statement, Flat[p].output.statement)

-----------------------------------------------------------------------------
(* Properties of the layout *)

\* the boxes [x, x + width] of two groups have no point in common
BoxesApart(g, h) ==
    \/ FLt(FAdd(g.x, FInt(g.width)), h.x)
    \/ FLt(FAdd(h.x, FInt(h.width)), g.x)

\* C5: within the Outcome rank and within the Output rank no two boxes
\* overlap horizontally, and the slot pitch totalWidth / (k + 1) of either
\* rank is at least the box width.
C5_NoHorizontalOverlap ==
    pc \in {"outcomes", "outputs", "done"} =>
        /\ \A a, b \in 1..Len(OutcomeGroups) :
               a # b => BoxesApart(OutcomeGroups[a], OutcomeGroups[b])
        /\ \A a, b \in 1..Len(OutputGroups) :
               a # b => BoxesApart(OutputGroups[a], OutputGroups[b])
        /\ FLeq(FInt(itemWidth), Frac(totalWidth, Len(data.outcomes) + 1))
        /\ FLeq(FInt(itemWidth), Frac(totalWidth, Len(uniqueOutputs) + 1))

C5_Witness ==
    /\ pc = "done"
    /\ totalWidth > width
    /\ Len(OutcomeGroups) >= 6
    /\ Len(OutputGroups) > Len(OutcomeGroups)

\* C6: the Impact box is centred on the midpoint of the canvas and is 1.5
\* times the ordinary box width wide.
C6_ImpactCentred ==
    \A k \in 1..Len(svg) :
        IsImpactGroup(svg[k]) =>
            /\ FEq(FAdd(svg[k].x, Frac(svg[k].width, 2)), Frac(totalWidth, 2))
            /\ svg[k].width * 2 = itemWidth * 3

-----------------------------------------------------------------------------
(* Properties of the text fitting *)

WordsOf(t) == Range(Split(t))

EndsWithEllipsis(t) ==
    Len(t) >= Len(Ellipsis) /\ SubSeq(t, Len(t) - Len(Ellipsis) + 1, Len(t)) = Ellipsis

StripEllipsis(t) ==
    IF EndsWithEllipsis(t) THEN SubSeq(t, 1, Len(t) - Len(Ellipsis)) ELSE t

IsProperPrefix(p, w) == Len(p) < Len(w) /\ p = SubSeq(w, 1, Len(p))

\* the token shows part of a word of the text that fits on a line by itself
BrokenWord(token) ==
    LET core == StripEllipsis(token) IN
    /\ core # <<>>
    /\ \E w \in WordsOf(text) : Len(w) <= maxCharsPerLine /\ IsProperPrefix(core, w)

DisplayedTokens == UNION { WordsOf(displayLines[k]) : k \in 1..Len(displayLines) }

\* C7: the tooltip is the untruncated text, unchanged, and at most maxLines
\* lines of text are displayed.
C7_FullTextKept ==
    fpc = "done" =>
        /\ titleEl = text
        /\ Len(displayLines) <= maxLines
        /\ Len(textEls) <= maxLines

C7_Witness ==
    /\ fpc = "done"
    /\ Len(text) > maxChars
    /\ Len(lines) > maxLines
    /\ titleEl # truncatedText

\* C8 as stated: no displayed line shows a fragment of a word of the text,
\* unless that word alone is longer than maxCharsPerLine.
C8_NoWordBroken ==
    fpc = "done" => \A token \in DisplayedTokens : ~BrokenWord(token)

\* C8 amended: every word shown on a displayed line is a whole word of the
\* text, except the last word of the 57-character cut of a text longer than
\* 60 characters, which is shown as cut, followed by the ellipsis.
C8_OnlyTruncationBreaks ==
    fpc = "done" =>
        \A token \in DisplayedTokens :
            \/ token \in WordsOf(text)
            \/ /\ Len(text) > maxChars
               /\ token = Split(Substring0(text, keptChars) \o Ellipsis)
                              [Len(Split(Substring0(text, keptChars) \o Ellipsis))]

C8_Witness ==
    /\ fpc = "done"
    /\ Len(text) > maxChars
    /\ \E token \in DisplayedTokens : BrokenWord(token)
    /\ \E token \in DisplayedTokens : Len(token) > maxCharsPerLine

\* C9: a text of at most maxChars characters passes the truncation step
\* unchanged, also at exactly maxChars characters.
C9_ShortTextUntouched ==
    (fpc \in {"split", "wrap", "display", "title", "done"} /\ Len(text) <= maxChars)
        => truncatedText = text

C9_Witness ==
    /\ fpc = "done"
    /\ Len(text) = maxChars

-----------------------------------------------------------------------------
(* Properties of the scene *)

\* C10: the scene has exactly 1 + n + m node boxes for n Outcomes and m
\* unique Outputs; with zero Outcomes it has the Impact node alone and no
\* connector, and the generation does not throw.
C10_NodeCount ==
    /\ pc = "done" =>
          /\ Len(Groups) = 1 + Len(data.outcomes) + Len(FirstSeen)
          /\ Len(OutcomeGroups) = Len(data.outcomes)
          /\ Len(OutputGroups) = Len(FirstSeen)
          /\ Len(data.outcomes) = 0 =>
                /\ Len(Groups) = 1
                /\ IsImpactGroup(Groups[1])
                /\ Len(Paths) = 0
    /\ (Has(data, "outcomes") /\ Len(data.outcomes) = 0
            /\ data.impact.statement # Undefined)
          => pc # "raised"

C10_Witness ==
    /\ pc = "done"
    /\ Len(data.outcomes) = 0
    /\ Len(Groups) = 1
    /\ Len(svg) = 4

\* C11: in the child order of the scene, which is the paint order, every
\* connector path comes before every node group, at each moment of the
\* construction and in the returned scene.
C11_ConnectorsBeneathNodes ==
    \A i, j \in 1..Len(svg) :
        (IsPath(svg[i]) /\ IsGroup(svg[j])) => i < j

C11_Witness ==
    /\ pc = "done"
    /\ Len(OutcomeGroups) >= 2
    /\ Len(OutputGroups) >= 2
    /\ Len(Paths) >= 4
    /\ C11_ConnectorsBeneathNodes

\* C17: an output node is marked shared exactly when its normalized
\* statement occurs in at least two distinct Outcomes, the N of its label is
\* the number of those Outcomes, and otherwise its label is exactly 'Output'.
C17_SharedIffTwoOutcomes ==
    pc = "done" =>
        \A k \in 1..Len(OutputGroups) :
            LET g == OutputGroups[k]
                owners == Cardinality(Owners(g.title))
            IN /\ g.isShared <=> owners >= 2
               /\ g.label = OutputLabel(owners >= 2, owners)

\* C18: for n Outcomes and m unique Outputs the canvas is
\* max(1200, max(n, m, 1) * (200 + 40) + 2*20) wide and 3*180 + 2*20 = 580
\* high, also when n = 0 or m = 0.
C18_CanvasSize ==
    Collected =>
        LET n == Len(data.outcomes)
            m == Len(FirstSeen)
        IN /\ totalWidth = Max(1200, Max(Max(n, m), 1) * (200 + 40) + 2 * 20)
           /\ totalHeight = 580

C18_Witness ==
    /\ pc = "done"
    /\ totalWidth > 1200
    /\ Len(data.outcomes) > 0
    /\ Len(FirstSeen) > Len(data.outcomes)

-----------------------------------------------------------------------------
(* Properties of the text fitting, continued *)

Truncated == fpc \in {"split", "wrap", "display", "title", "done"}

\* C19 as stated: for a text longer than 60 characters the wrapping step
\* receives the first 60 characters of the text followed by the ellipsis.
C19_FirstSixtyKept ==
    (Truncated /\ Len(text) > 60)
        => truncatedText = SubSeq(text, 1, 60) \o Ellipsis

\* C19: for a text longer than 60 characters the wrapping step receives
\* the first 57 characters of the text followed by three full stops, 60
\* characters in all.
C19_FirstFiftySevenKept ==
    (Truncated /\ Len(text) > 60)
        => /\ truncatedText = SubSeq(text, 1, 57) \o <<".", ".", ".">>
           /\ Len(truncatedText) = 60

C19_Witness ==
    /\ fpc = "done"
    /\ Len(text) > 60
    /\ text[58] # "."

\* the line is made of two or more words joined by spaces
MultiWord(line) == \E k \in 1..Len(line) : line[k] = " "

Wrapped == fpc \in {"display", "title", "done"}

\* C20 as stated: a displayed line (without the ellipsis of the line
\* truncation) of two or more words has at most 30 characters, joining
\* spaces included; only a single word makes a longer line.
C20_MultiWordLinesFit ==
    Wrapped =>
        \A k \in 1..Len(displayLines) :
            MultiWord(displayLines[k]) => Len(displayLines[k]) <= 30

\* C20: a line of two or more words has at most 31 characters, joining
\* spaces included, and at most 30 without the space before its last word;
\* only a single word makes a line longer than 31 characters.
C20_MultiWordLinesWithinOne ==
    Wrapped =>
        /\ \A k \in 1..Len(lines) :
               MultiWord(lines[k]) => Len(lines[k]) <= 31
        /\ \A k \in 1..Len(displayLines) :
               /\ displayLines[k] = lines[k]
               /\ Len(displayLines[k]) > 31 => ~MultiWord(displayLines[k])

C20_Witness ==
    /\ fpc = "done"
    /\ \E k \in 1..Len(displayLines) :
          /\ MultiWord(displayLines[k])
          /\ Len(displayLines[k]) = 31

-----------------------------------------------------------------------------
(* Properties of the error handling *)

LacksOutcomes(d) == ~Has(d, "outcomes")
LacksImpactStatement(d) == d.impact.statement = Undefined
MalformedSnapshot(d) == LacksOutcomes(d) \/ LacksImpactStatement(d)

NoWorkDone ==
    /\ outputsMap = <<>>
    /\ totalWidth = 0
    /\ totalHeight = 0
    /\ svg = <<>>

\* C12: for every snapshot that isValidData accepts, the generation never
\* raises, however degenerate the snapshot is.
C12_ValidNeverRaises ==
    IsValidData(data) => pc # "raised"

\* C13 as stated: on a snapshot without impact.statement or without an
\* outcomes sequence no deduplication or layout work is ever done, and no
\* scene is returned.
C13_FailsBeforeAnyWork ==
    MalformedSnapshot(data) => (pc \in {"collect", "raised"} /\ NoWorkDone)

\* C13: on such a snapshot no scene is returned and no node or connector
\* is ever created; without an outcomes sequence nothing at all is computed
\* before the raise; without impact.statement the raise comes from the
\* creation of the Impact node, after the unique outputs were collected,
\* the canvas sized and the svg element created.
C13_FailsBeforeAnyNode ==
    MalformedSnapshot(data) =>
        /\ pc \in {"collect", "createSvg", "impact", "raised"}
        /\ Groups = <<>> /\ Paths = <<>>
        /\ outcomeNodes = <<>> /\ outputNodes = <<>>
        /\ LacksOutcomes(data) => NoWorkDone
        /\ (pc = "raised" /\ ~LacksOutcomes(data)
               /\ \A q \in 1..Len(Flat) : Flat[q].output.statement # Undefined)
              => /\ Len(outputsMap) = Len(FirstSeen)
                 /\ totalWidth >= width
                 /\ Len(svg) = 3

C13_Witness ==
    /\ pc = "raised"
    /\ LacksImpactStatement(data)
    /\ Len(outputsMap) = 2
    /\ Len(svg) = 3

-----------------------------------------------------------------------------
(* Properties of repeated invocation *)

\* C14: the generation never modifies the snapshot handed to it, and each
\* further invocation on the same snapshot returns a scene equal to the
\* one returned before: same children in the same order with the same
\* positions, labels, shared flags and connectors.
C14_Idempotent ==
    /\ [][data' = data]_vars
    /\ []((pc = "done" /\ calls >= 1) => svg = returned)

C14_Witness ==
    /\ pc = "done"
    /\ calls = MaxCalls
    /\ svg = returned
    /\ \E k \in 1..Len(OutputGroups) : OutputGroups[k].isShared
    /\ \E k \in 1..Len(OutputGroups) : ~OutputGroups[k].isShared

-----------------------------------------------------------------------------
(* Properties of the application *)

\* C15: whenever the preview view is shown, the visualization that is
\* displayed in it (the text tree or the diagram, whichever container is
\* active) is the rendering of the current data model.
C15_DisplayedIsCurrent ==
    (apc = "running" /\ currentView = "preview") =>
        /\ activeVisualization = "text" => previewContent = Rendering(tocData)
        /\ activeVisualization = "diagram" => svgContent = Rendering(tocData)

\* the change notifications issued so far have all been answered
AutosavePending == sinceChange >= 0 /\ autosaves = 0

\* C16: every change notification (re)starts the one autosave timer at
\* 2 seconds, so that while changes follow one another within 2 seconds no
\* automatic save happens; exactly one automatic save follows the last
\* change of a burst, when that change is 2 seconds old; and every change
\* is eventually followed by an automatic save.
C16_AutosaveDebounced ==
    /\ [](AutosavePending =>
            timers = {[id |-> autosaveTimer,
                       remaining |-> AUTOSAVE_DELAY - sinceChange]})
    /\ [](autosaves <= 1)
    /\ [](autosaves = 1 => (sinceChange >= AUTOSAVE_DELAY /\ timers = {}))
    /\ [][autosaves' > autosaves => sinceChange = AUTOSAVE_DELAY]_vars
    /\ (AutosavePending ~> autosaves = 1)

C16_Witness ==
    /\ apc = "running"
    /\ autosaves = 1
    /\ timerSeq >= 3
    /\ sinceChange = AUTOSAVE_DELAY

-----------------------------------------------------------------------------
(* Properties of the line truncation *)

Displayed == fpc \in {"title", "done"}

\* C21: the displayed lines are exactly the first 2 lines produced by the
\* wrapping, and the second displayed line ends with an appended ellipsis
\* exactly when the wrapping produced more than 2 lines.
C21_FirstTwoLines ==
    Displayed =>
        /\ Len(textEls) = (IF Len(lines) < 2 THEN Len(lines) ELSE 2)
        /\ Len(displayLines) = Len(textEls)
        /\ \A k \in 1..Len(textEls) :
              /\ displayLines[k] = lines[k]
              /\ (k = 2 /\ Len(lines) > 2) => textEls[k] = lines[k] \o <<".", ".", ".">>
              /\ ~(k = 2 /\ Len(lines) > 2) => textEls[k] = lines[k]

C21_Witness ==
    /\ fpc = "done"
    /\ Len(lines) > 2
    /\ Len(textEls) = 2
    /\ textEls[1] = lines[1]
    /\ textEls[2] # lines[2]

-----------------------------------------------------------------------------
(* Properties of the connectors *)

SharedStyle(p) == p.dashed /\ p.strokeWidth10 = 25 /\ p.opacity10 = 8
OrdinaryStyle(p) == ~p.dashed /\ p.strokeWidth10 = 15 /\ p.opacity10 = 5

\* the connector ends on the top edge of the Outcome rank / the Output rank
IntoOutcomeRank(p) == p.y2 = 20 + 180
IntoOutputRank(p) == p.y2 = 20 + 2 * 180

\* C22: a connector has the shared style (dashed, width 2.5, opacity 0.8)
\* exactly when it runs into an output node that is marked shared; every
\* Impact->Outcome connector and every connector into a node that is not
\* marked shared has the ordinary style (solid, width 1.5, opacity 0.5).
C22_ConnectorStyle ==
    /\ \A k \in 1..Len(svg) :
          IsPath(svg[k]) =>
              /\ SharedStyle(svg[k]) \/ OrdinaryStyle(svg[k])
              /\ IntoOutcomeRank(svg[k]) \/ IntoOutputRank(svg[k])
              /\ IntoOutcomeRank(svg[k]) => OrdinaryStyle(svg[k])
              /\ IntoOutputRank(svg[k]) =>
                    \E q \in 1..Len(OutputGroups) : k \in ConnectorsInto(OutputGroups[q])
    /\ \A q \in 1..Len(OutputGroups) : \A k \in ConnectorsInto(OutputGroups[q]) :
          /\ OutputGroups[q].isShared => SharedStyle(svg[k])
          /\ ~OutputGroups[q].isShared => OrdinaryStyle(svg[k])

C22_Witness ==
    /\ pc = "done"
    /\ \E q \in 1..Len(OutputGroups) :
          OutputGroups[q].isShared /\ Cardinality(ConnectorsInto(OutputGroups[q])) >= 2
    /\ \E q \in 1..Len(OutputGroups) :
          ~OutputGroups[q].isShared /\ ConnectorsInto(OutputGroups[q]) # {}
    /\ \E k \in 1..Len(svg) : IsPath(svg[k]) /\ IntoOutcomeRank(svg[k])

UniqueOutcomeIds ==
    \A a, b \in 1..Len(data.outcomes) :
        data.outcomes[a].id = data.outcomes[b].id => a = b

ImpactGroup == svg[ImpactIndex(svg)]

TopCentre(g, x, y) == y = g.y /\ FEq(x, FAdd(g.x, Frac(g.width, 2)))
BottomCentre(g, x, y) == y = g.y + g.height /\ FEq(x, FAdd(g.x, Frac(g.width, 2)))
OnBottomEdge(g, x, y) ==
    /\ y = g.y + g.height
    /\ FLeq(g.x, x)
    /\ FLeq(x, FAdd(g.x, FInt(g.width)))

\* C23: when the Outcome ids are unique, each Outcome has exactly one
\* connector from the bottom edge of the Impact box to the top-centre of
\* its box, and every connector into an output node starts at the
\* bottom-centre of the box of an Outcome whose id is among the outcomeIds
\* of that node and ends at the top-centre of the node.
C23_ConnectorEndpoints ==
    (pc = "done" /\ UniqueOutcomeIds) =>
        /\ Len(OutcomeGroups) = Len(data.outcomes)
        /\ Len(outputNodes) = Len(OutputGroups)
        /\ \A i \in 1..Len(OutcomeGroups) :
              /\ Cardinality({ k \in 1..Len(svg) :
                     IsPath(svg[k])
                        /\ TopCentre(OutcomeGroups[i], svg[k].x2, svg[k].y2) }) = 1
              /\ \A k \in 1..Len(svg) :
                    (IsPath(svg[k]) /\ TopCentre(OutcomeGroups[i], svg[k].x2, svg[k].y2))
                        => OnBottomEdge(ImpactGroup, svg[k].x1, svg[k].y1)
        /\ Cardinality({ k \in 1..Len(svg) : IsPath(svg[k]) /\ IntoOutcomeRank(svg[k]) })
              = Len(data.outcomes)
        /\ \A k \in 1..Len(svg) :
              (IsPath(svg[k]) /\ ~IntoOutcomeRank(svg[k])) =>
                  \E q \in 1..Len(OutputGroups) :
                      /\ TopCentre(OutputGroups[q], svg[k].x2, svg[k].y2)
                      /\ \E i \in 1..Len(data.outcomes) :
                            /\ data.outcomes[i].id \in Range(outputNodes[q].outcomeIds)
                            /\ BottomCentre(OutcomeGroups[i], svg[k].x1, svg[k].y1)

C23_Witness ==
    /\ pc = "done"
    /\ UniqueOutcomeIds
    /\ Len(data.outcomes) >= 2
    /\ \E q \in 1..Len(outputNodes) :
          Range(outputNodes[q].outcomeIds) = {data.outcomes[2].id}
    /\ \E q \in 1..Len(outputNodes) :
          Cardinality(Range(outputNodes[q].outcomeIds)) = 2

-----------------------------------------------------------------------------
(* Properties of the canvas *)

\* C29: every node box lies inside the canvas: its horizontal range is
\* within [0, totalWidth] and its vertical range within [0, totalHeight].
C29_BoxesInsideCanvas ==
    \A k \in 1..Len(svg) :
        IsGroup(svg[k]) =>
            /\ FLeq(FInt(0), svg[k].x)
            /\ FLeq(FAdd(svg[k].x, FInt(svg[k].width)), FInt(totalWidth))
            /\ 0 <= svg[k].y
            /\ svg[k].y + svg[k].height <= totalHeight

C29_Witness ==
    /\ pc = "done"
    /\ totalWidth > 1200
    /\ Len(OutcomeGroups) >= 5
    /\ \E k \in 1..Len(svg) : IsGroup(svg[k]) /\ FLt(svg[k].x, FInt(110))
    /\ \E k \in 1..Len(svg) :
          IsGroup(svg[k]) /\ FLt(FInt(totalWidth - 110), FAdd(svg[k].x, FInt(svg[k].width)))

-----------------------------------------------------------------------------
(* TocDataModel: notifications and frame of the mutations *)

ModelCalled == lastOp.op \notin {"none", "subscribe"}

\* the change type that each mutating method announces
ChangeTypeOf(name) ==
    CASE name = "addOutcome" -> "outcome-added"
      [] name = "deleteOutcome" -> "outcome-deleted"
      [] name = "updateOutcomeStatement" -> "outcome-updated"
      [] name = "addOutcomeIndicator" -> "outcome-indicator-added"
      [] name = "updateOutcomeIndicator" -> "outcome-indicator-updated"
      [] name = "deleteOutcomeIndicator" -> "outcome-indicator-deleted"
      [] name = "addOutput" -> "output-added"
      [] name = "updateOutputStatement" -> "output-updated"
      [] name = "deleteOutput" -> "output-deleted"
      [] name = "addOutputIndicator" -> "output-indicator-added"
      [] name = "updateOutputIndicator" -> "output-indicator-updated"
      [] name = "deleteOutputIndicator" -> "output-indicator-deleted"
      [] OTHER -> "none"

TakesOutcome(name) == name # "addOutcome"

TakesOutput(name) ==
    name \in {"updateOutputStatement", "deleteOutput", "addOutputIndicator",
              "updateOutputIndicator", "deleteOutputIndicator"}

TakesIndicator(name) ==
    name \in {"updateOutcomeIndicator", "deleteOutcomeIndicator",
              "updateOutputIndicator", "deleteOutputIndicator"}

\* an id handed to the last call is carried by nothing in the data
IdMissing ==
    \/ TakesOutcome(lastOp.op) /\ lastOp.outcomeId \notin (OutcomeIds(before) \ {NoSuchId})
    \/ TakesOutput(lastOp.op) /\ lastOp.outputId \notin (OutputIds(before) \ {NoSuchId})
    \/ TakesIndicator(lastOp.op)
          /\ lastOp.indicatorId \notin (IndicatorIds(before) \ {NoSuchId})

\* C25: a mutation of TocDataModel that finds its target calls every
\* subscribed listener exactly once, with the change type of the mutation,
\* and the listener finds the changed data (lastModified included) in the
\* model; a mutation handed an id that nothing carries changes no data, not
\* even lastModified, and calls no listener
C25_NotifiesEachListenerOnce ==
    ModelCalled =>
        /\ lastOp.found =>
              /\ \A l \in 1..listeners :
                    Cardinality({ k \in 1..Len(notifications) :
                                    notifications[k].listener = l }) = 1
              /\ Len(notifications) = listeners
              /\ \A k \in 1..Len(notifications) :
                    /\ notifications[k].changeType = ChangeTypeOf(lastOp.op)
                    /\ notifications[k].seen = tocData
              /\ tocData.lastModified # before.lastModified
        /\ IdMissing =>
              /\ ~lastOp.found
              /\ tocData = before
              /\ notifications = <<>>

\* an indicator of an output has been updated with two listeners subscribed
C25_Witness ==
    /\ lastOp.op = "updateOutputIndicator"
    /\ lastOp.found
    /\ listeners = 2
    /\ Len(notifications) = 2
    /\ tocData.outcomes # before.outcomes

\* a call with an id that nothing carries has been made
C25_MissingReached == ModelCalled /\ IdMissing /\ listeners > 0

\* the outcomes of the data all carry different ids
DistinctOutcomeIds(d) ==
    \A a, b \in 1..Len(d.outcomes) :
        d.outcomes[a].id = d.outcomes[b].id => a = b

\* the last call took the outcome at position i out and kept the rest in order
RemovedAt(i) ==
    /\ Len(tocData.outcomes) = Len(before.outcomes) - 1
    /\ \A k \in 1..Len(tocData.outcomes) :
          tocData.outcomes[k] = before.outcomes[IF k < i THEN k ELSE k + 1]

\* the last call changed nothing outside the outcome at position i
OnlyChangedAt(i) ==
    /\ Len(tocData.outcomes) = Len(before.outcomes)
    /\ tocData.outcomes[i].id = before.outcomes[i].id
    /\ \A k \in 1..Len(before.outcomes) :
          k # i => tocData.outcomes[k] = before.outcomes[k]

\* C26: a mutation addressed to one outcome leaves every other outcome, the
\* impact and the order of the outcomes as they were; deleteOutcome takes
\* out one outcome carrying the given id, whole, and keeps the others in
\* their order (none with that id is left when the ids are distinct)
C26_OtherOutcomesUntouched ==
    (ModelCalled /\ lastOp.found /\ lastOp.op # "addOutcome") =>
        /\ tocData.impact = before.impact
        /\ tocData.version = before.version
        /\ \E i \in 1..Len(before.outcomes) :
              /\ before.outcomes[i].id = lastOp.outcomeId
              /\ IF lastOp.op = "deleteOutcome"
                 THEN /\ RemovedAt(i)
                      /\ DistinctOutcomeIds(before) =>
                            \A k \in 1..Len(tocData.outcomes) :
                                tocData.outcomes[k].id # lastOp.outcomeId
                 ELSE OnlyChangedAt(i)

\* the first of two outcomes has been deleted and the second is left
C26_Witness ==
    /\ lastOp.op = "deleteOutcome"
    /\ lastOp.found
    /\ Len(before.outcomes) = 2
    /\ DistinctOutcomeIds(before)
    /\ tocData.outcomes = << before.outcomes[2] >>

-----------------------------------------------------------------------------
(* The application: imports, validity of the data, typing, leaving the page *)

\* C24: whenever importTocData or importTocDataFromURL returns false, the
\* data of the model is the same as before the call
C24_FalseLeavesData ==
    [][((HandleImportJSON \/ HandleImportURL) /\ lastResult' = "import-false")
            => tocData' = tocData]_vars

\* C28: the data held by the model of the running application always
\* satisfies isValidData, whatever localStorage or the URL held at start-up,
\* whatever was imported and whatever the handlers changed
C28_ModelDataValid == apc = "running" => IsValidData(tocData)

\* localStorage still holds the rejected item found at start-up, an import
\* has been refused, and the handlers have added an output to the model
C28_Witness ==
    /\ apc = "running"
    /\ stored # <<>>
    /\ ~IsValidData(JSONParse(stored))
    /\ \E i \in 1..Len(tocData.outcomes) : Len(tocData.outcomes[i].outputs) > 0

\* the value that the model holds for an input element, Undefined when the
\* element stands for nothing in the model
ModelValueOf(d, f) ==
    LET i == OutcomeAt(d, f.outcomeId)
        j == OutputAt(d, f.outcomeId, f.outputId)
    IN CASE f.kind = "outcome-statement" ->
              IF i = 0 THEN Undefined ELSE d.outcomes[i].statement
         [] f.kind = "output-statement" ->
              IF j = 0 THEN Undefined ELSE d.outcomes[i].outputs[j].statement
         [] f.kind = "outcome-indicator" ->
              LET q == OutcomeIndicatorAt(d, f.outcomeId, f.indicatorId)
              IN IF q = 0 THEN Undefined
                 ELSE d.outcomes[i].indicators[q].description
         [] f.kind = "output-indicator" ->
              LET q == OutputIndicatorAt(d, f.outcomeId, f.outputId, f.indicatorId)
              IN IF q = 0 THEN Undefined
                 ELSE d.outcomes[i].outputs[j].indicators[q].description

\* the model holds the latest value of every element that was typed into
EditsInModel == \A e \in fieldValue : ModelValueOf(tocData, e.field) = e.value

\* C27: every edit typed into a field eventually reaches the model: once
\* typing has stopped, the model value of each edited field is that
\* field's latest value, also when two fields are edited less than 500 ms
\* apart
C27_EditsReachModel == <>[]EditsInModel

\* the leave-page warning is tested in this step
Leaving == BeforeUnload

Warned == lastResult' = "warned"

\* C30: the leave-page warning is raised exactly when the application is in
\* the edit view and the serialised data of the model differs from the
\* item in localStorage; directly after a successful save no warning is
\* raised; after a mutation made in the edit view and not yet saved the
\* warning is raised
C30_WarnsWhenUnsaved ==
    [][Leaving =>
          /\ Warned <=> (currentView = "edit" /\ JSONStringify(tocData) # stored)
          /\ lastResult \in {"saved", "import-true"} => ~Warned
          /\ unsaved => Warned]_vars

\* C30, amended: as above, and after a mutation made in the edit view and
\* not yet saved the warning is raised as long as the application is still
\* in the edit view
C30_WarnsWhenUnsavedInEditView ==
    [][Leaving =>
          /\ Warned <=> (currentView = "edit" /\ JSONStringify(tocData) # stored)
          /\ lastResult \in {"saved", "import-true"} => ~Warned
          /\ (unsaved /\ currentView = "edit") => Warned]_vars

\* the page is being left in the edit view with a change that no save has
\* stored, and the warning has been raised
C30_Witness ==
    /\ apc = "running"
    /\ lastResult = "warned"
    /\ unsaved
    /\ currentView = "edit"
    /\ stored # <<>>
    /\ JSONParse(stored).outcomes # tocData.outcomes

=============================================================================
